---- MODULE Spec2Model ----
(***************************************************************************)
(* Model of the real-time progress and event-distribution pipeline of      *)
(* Hermes (packages/hermes-api):                                           *)
(*   - EventService.event_stream      (app/services/event_service.py)      *)
(*   - _download_video_task and its progress_hook                          *)
(*                                    (app/tasks/download_tasks.py)        *)
(*   - DownloadRepository.update_status (app/db/repositories.py)           *)
(*   - RedisProgressService           (app/services/redis_progress.py)     *)
(*   - create_sse_token               (app/api/v1/endpoints/events.py)     *)
(*   - validate_sse_token, get_current_sse_token, _scope_matches           *)
(*                                    (app/core/security.py)               *)
(*   - SSETokenData, generate_sse_token (app/models/sse_token.py)          *)
(*   - event_stream (the route)       (app/api/v1/endpoints/events.py)     *)
(*   - get_download_status, cancel_download                                *)
(*                                    (app/api/v1/endpoints/downloads.py)  *)
(*                                                                         *)
(* The specifications that share the module:                               *)
(*   SpecStream  the SSE connections served by one event loop              *)
(*   SpecPair    a filtered and an unfiltered connection on that loop      *)
(*   SpecJob     one run of _download_video_task with its worker thread    *)
(*   SpecHook    the callbacks of progress_hook while the engine runs      *)
(*   SpecToken   the SSE token endpoints over the token store and a clock  *)
(*   SpecScope   the two scope-matching functions on pairs of scopes       *)
(*   SpecRoute   the arguments GET /events/stream derives from a request   *)
(*   SpecCancel  the run of the job with cancel_download called at will    *)
(*   SpecStatus  the callbacks with get_download_status polled at will     *)
(*   SpecTiers   closely spaced callbacks, the throttled tiers compared    *)
(*   SpecIssue   create_sse_token while Redis may stop answering           *)
(*   SpecFault   the run of the job while Redis or the database may fail   *)
(***************************************************************************)
EXTENDS Integers, Sequences, FiniteSets, TLC

(***************************************************************************)
(* Bounds of the model.                                                    *)
(***************************************************************************)
NumStreams == 2
max_connections == 1
MaxEvents == 2
MaxNow == 1
sse_heartbeat_interval == 1

None == "None"

\* None where the source holds a number, a percentage, a callback argument
\* or a snapshot.
NoBytes == 0 - 1
NoProgress == [n |-> 0 - 1, d |-> 1]
NoCallback == [status |-> "none", downloaded_bytes |-> NoBytes,
               total_bytes |-> NoBytes]
NoSnapshot == [status |-> "absent"]
NoEvent == [type |-> "none", data |-> [none |-> "1"]]

(***************************************************************************)
(* State of the event stream service.                                      *)
(***************************************************************************)
VARIABLES
    active_connections,   \* EventService.active_connections
    pc,                   \* per stream: where the async generator is suspended
    out,                  \* per stream: the events it has yielded so far
    admitted,             \* per stream: passed the ceiling check (line 55 ran)
    subscribed,           \* per stream: subscribe_to_channels was iterated
    closes,               \* per stream: number of times the finally block ran
    filters,              \* per stream: the filters argument, a set of
                          \* <<key, value>> pairs, empty for None and {}
    last_heartbeat,       \* per stream: local variable last_heartbeat
    event,                \* per stream: the subscription event being handled
    delivered,            \* number of events the subscriptions have delivered
    received,             \* per stream: the events its subscription delivered
    now                   \* the event loop's clock (loop.time())

streamVars == <<active_connections, pc, out, admitted, subscribed, closes,
                filters, last_heartbeat, event, delivered, received, now>>

(***************************************************************************)
(* State of one run of _download_video_task.                               *)
(***************************************************************************)
VARIABLES
    taskPc,               \* where the coroutine _download_video_task is
    engine,               \* the extraction engine on its worker thread
    db,                   \* the Download row of the job
    snapshot,             \* the Redis key download:<id>:progress
    published,            \* statuses published on download:updates, in order
    loopQ,                \* coroutines handed to the loop, not yet run
    tokens,               \* the Redis keys sse:token:*
    last_sse_percentage,
    last_sse_update_time,
    last_db_percentage,
    last_db_update_time,
    clock,                \* time.time(), in tenths of a second
    callbacks,            \* number of progress callbacks made so far
    last_d                \* the argument of the most recent callback

jobVars == <<taskPc, engine, db, snapshot, published, loopQ, tokens,
             last_sse_percentage, last_sse_update_time,
             last_db_percentage, last_db_update_time, clock, callbacks,
             last_d>>

(***************************************************************************)
(* State of the token endpoints.                                           *)
(***************************************************************************)
VARIABLES
    advances,             \* number of times the clock was advanced
    issued,               \* number of tokens create_sse_token has generated
    jobs,                 \* ids of the Download rows that exist
    response              \* the answer to the latest request

tokenVars == <<advances, issued, jobs, response>>

(***************************************************************************)
(* The collaborators of the executor, and what it left with them.          *)
(***************************************************************************)
VARIABLES
    redis_up,             \* the Progress Store (Redis) answers
    db_up,                \* the database answers
    faults,               \* number of times a collaborator failed or recovered
    history,              \* statuses of the history records written
    webhooks              \* events the webhooks were triggered for, in order

envVars == <<redis_up, db_up, faults, history, webhooks>>

vars == <<streamVars, jobVars, tokenVars, envVars>>

Streams == 1..NumStreams

DownloadIds == {"X", "Y"}

\* Events delivered by redis_progress_service.subscribe_to_channels: the
\* type and the payload ("data") of each; a queue update carries no
\* download_id and no status.
SubEvents ==
    [type : {"download_progress"},
     data : [download_id : DownloadIds, status : {"downloading"}]]
        \cup {[type |-> "queue_update", data |-> [queue_position |-> "1"]]}

Yields == {"created", "rejected_yield", "connected_yield", "awaiting",
           "heartbeat_yield", "event_yield", "error_yield", "done"}

ErrMaxConnections == [event |-> "error", code |-> "MAX_CONNECTIONS"]
ErrInternal == [event |-> "error", code |-> "INTERNAL_ERROR"]
EvConnected == [event |-> "connected", code |-> None]
EvHeartbeat == [event |-> "heartbeat", code |-> None]
Forwarded(e) == [event |-> e.type, data |-> e.data]

\* EventService._matches_filters: every key of the filters is a key of the
\* event's payload, with an equal value.
_matches_filters_any(e, f) ==
    \E kv \in f :
        /\ kv[1] \in DOMAIN e.data
        /\ e.data[kv[1]] = kv[2]

_matches_filters(e, f) ==
    \A kv \in f :
        /\ kv[1] \in DOMAIN e.data
        /\ e.data[kv[1]] = kv[2]

\* The filters argument of each stream: the first stream is opened with
\* {"download_id": "X", "status": "downloading"}, the others without filters.
StreamFilter(s) ==
    IF s = 1 THEN {<<"download_id", "X">>, <<"status", "downloading">>}
    ELSE {}

InitStream ==
    /\ active_connections = 0
    /\ pc = [s \in Streams |-> "created"]
    /\ out = [s \in Streams |-> <<>>]
    /\ admitted = [s \in Streams |-> FALSE]
    /\ subscribed = [s \in Streams |-> FALSE]
    /\ closes = [s \in Streams |-> 0]
    /\ filters = [s \in Streams |-> StreamFilter(s)]
    /\ last_heartbeat = [s \in Streams |-> 0]
    /\ event = [s \in Streams |-> NoEvent]
    /\ delivered = 0
    /\ received = [s \in Streams |-> <<>>]
    /\ now = 0

\* The finally block of event_stream (lines 115-121).
Finally(s) ==
    /\ active_connections' = active_connections - 1
    /\ closes' = [closes EXCEPT ![s] = @ + 1]
    /\ pc' = [pc EXCEPT ![s] = "done"]

\* First __anext__: the ceiling check, and the increment when admitted
\* (lines 38-75). No await separates the check from the increment.
Admit_off_by_one(s) ==
    /\ pc[s] = "created"
    /\ IF active_connections > max_connections
       THEN /\ out' = [out EXCEPT ![s] = Append(@, ErrMaxConnections)]
            /\ pc' = [pc EXCEPT ![s] = "rejected_yield"]
            /\ UNCHANGED <<active_connections, admitted>>
       ELSE /\ active_connections' = active_connections + 1
            /\ admitted' = [admitted EXCEPT ![s] = TRUE]
            /\ out' = [out EXCEPT ![s] = Append(@, EvConnected)]
            /\ pc' = [pc EXCEPT ![s] = "connected_yield"]
    /\ UNCHANGED <<subscribed, closes, filters, last_heartbeat, event,
                   delivered, received, now>>
    /\ UNCHANGED jobVars
    /\ UNCHANGED tokenVars
    /\ UNCHANGED envVars

Admit(s) ==
    /\ pc[s] = "created"
    /\ IF active_connections >= max_connections
       THEN /\ out' = [out EXCEPT ![s] = Append(@, ErrMaxConnections)]
            /\ pc' = [pc EXCEPT ![s] = "rejected_yield"]
            /\ UNCHANGED <<active_connections, admitted>>
       ELSE /\ active_connections' = active_connections + 1
            /\ admitted' = [admitted EXCEPT ![s] = TRUE]
            /\ out' = [out EXCEPT ![s] = Append(@, EvConnected)]
            /\ pc' = [pc EXCEPT ![s] = "connected_yield"]
    /\ UNCHANGED <<subscribed, closes, filters, last_heartbeat, event,
                   delivered, received, now>>
    /\ UNCHANGED jobVars
    /\ UNCHANGED tokenVars
    /\ UNCHANGED envVars

\* __anext__ after the MAX_CONNECTIONS event: the bare return of line 53.
ResumeRejected_decrements(s) ==
    /\ pc[s] = "rejected_yield"
    /\ Finally(s)
    /\ UNCHANGED <<out, admitted, subscribed, filters, last_heartbeat,
                   event, delivered, received, now>>
    /\ UNCHANGED jobVars
    /\ UNCHANGED tokenVars
    /\ UNCHANGED envVars

ResumeRejected(s) ==
    /\ pc[s] = "rejected_yield"
    /\ pc' = [pc EXCEPT ![s] = "done"]
    /\ UNCHANGED <<active_connections, out, admitted, subscribed, closes,
                   filters, last_heartbeat, event, delivered, received, now>>
    /\ UNCHANGED jobVars
    /\ UNCHANGED tokenVars
    /\ UNCHANGED envVars

\* __anext__ after 'connected': record last_heartbeat, start iterating the
\* subscription and wait for its first event (lines 78-81).
ResumeConnected_reconnects(s) ==
    /\ pc[s] = "connected_yield"
    /\ last_heartbeat' = [last_heartbeat EXCEPT ![s] = now]
    /\ subscribed' = [subscribed EXCEPT ![s] = TRUE]
    /\ out' = [out EXCEPT ![s] = Append(@, EvConnected)]
    /\ pc' = [pc EXCEPT ![s] = "awaiting"]
    /\ UNCHANGED <<active_connections, admitted, closes, filters,
                   event, delivered, received, now>>
    /\ UNCHANGED jobVars
    /\ UNCHANGED tokenVars
    /\ UNCHANGED envVars

ResumeConnected(s) ==
    /\ pc[s] = "connected_yield"
    /\ last_heartbeat' = [last_heartbeat EXCEPT ![s] = now]
    /\ subscribed' = [subscribed EXCEPT ![s] = TRUE]
    /\ pc' = [pc EXCEPT ![s] = "awaiting"]
    /\ UNCHANGED <<active_connections, out, admitted, closes, filters,
                   event, delivered, received, now>>
    /\ UNCHANGED jobVars
    /\ UNCHANGED tokenVars
    /\ UNCHANGED envVars

\* Lines 93-98: the filter, then the forwarded event.
FilterAndForward(s, e) ==
    IF filters[s] # {} /\ ~_matches_filters(e, filters[s])
    THEN /\ pc' = [pc EXCEPT ![s] = "awaiting"]
         /\ event' = [event EXCEPT ![s] = NoEvent]
         /\ UNCHANGED out
    ELSE /\ out' = [out EXCEPT ![s] = Append(@, Forwarded(e))]
         /\ pc' = [pc EXCEPT ![s] = "event_yield"]
         /\ event' = [event EXCEPT ![s] = NoEvent]

\* The subscription delivers an event (lines 81-98).
SubscriptionEvent_late_heartbeat(s, e) ==
    /\ pc[s] = "awaiting"
    /\ delivered < MaxEvents
    /\ delivered' = delivered + 1
    /\ received' = [received EXCEPT ![s] = Append(@, e)]
    /\ IF now - last_heartbeat[s] > sse_heartbeat_interval
       THEN /\ out' = [out EXCEPT ![s] = Append(@, EvHeartbeat)]
            /\ last_heartbeat' = [last_heartbeat EXCEPT ![s] = now]
            /\ event' = [event EXCEPT ![s] = e]
            /\ pc' = [pc EXCEPT ![s] = "heartbeat_yield"]
       ELSE /\ FilterAndForward(s, e)
            /\ UNCHANGED last_heartbeat
    /\ UNCHANGED <<active_connections, admitted, subscribed, closes,
                   filters, now>>
    /\ UNCHANGED jobVars
    /\ UNCHANGED tokenVars
    /\ UNCHANGED envVars

SubscriptionEvent(s, e) ==
    /\ pc[s] = "awaiting"
    /\ delivered < MaxEvents
    /\ delivered' = delivered + 1
    /\ received' = [received EXCEPT ![s] = Append(@, e)]
    /\ IF now - last_heartbeat[s] >= sse_heartbeat_interval
       THEN /\ out' = [out EXCEPT ![s] = Append(@, EvHeartbeat)]
            /\ last_heartbeat' = [last_heartbeat EXCEPT ![s] = now]
            /\ event' = [event EXCEPT ![s] = e]
            /\ pc' = [pc EXCEPT ![s] = "heartbeat_yield"]
       ELSE /\ FilterAndForward(s, e)
            /\ UNCHANGED last_heartbeat
    /\ UNCHANGED <<active_connections, admitted, subscribed, closes,
                   filters, now>>
    /\ UNCHANGED jobVars
    /\ UNCHANGED tokenVars
    /\ UNCHANGED envVars

\* __anext__ after a heartbeat: go on with the event that triggered it.
ResumeHeartbeat(s) ==
    /\ pc[s] = "heartbeat_yield"
    /\ FilterAndForward(s, event[s])
    /\ UNCHANGED <<active_connections, admitted, subscribed, closes,
                   filters, last_heartbeat, delivered, received, now>>
    /\ UNCHANGED jobVars
    /\ UNCHANGED tokenVars
    /\ UNCHANGED envVars

\* __anext__ after a forwarded event: back to waiting on the subscription.
ResumeEvent(s) ==
    /\ pc[s] = "event_yield"
    /\ pc' = [pc EXCEPT ![s] = "awaiting"]
    /\ UNCHANGED <<active_connections, out, admitted, subscribed, closes,
                   filters, last_heartbeat, event, delivered, received, now>>
    /\ UNCHANGED jobVars
    /\ UNCHANGED tokenVars
    /\ UNCHANGED envVars

\* The subscription raises: except Exception (lines 102-114) yields the
\* INTERNAL_ERROR event from inside the handler; finally has not run yet.
SubscriptionError(s) ==
    /\ pc[s] = "awaiting"
    /\ out' = [out EXCEPT ![s] = Append(@, ErrInternal)]
    /\ pc' = [pc EXCEPT ![s] = "error_yield"]
    /\ UNCHANGED <<active_connections, admitted, subscribed, closes,
                   filters, last_heartbeat, event, delivered, received, now>>
    /\ UNCHANGED jobVars
    /\ UNCHANGED tokenVars
    /\ UNCHANGED envVars

\* __anext__ after the INTERNAL_ERROR event: the handler ends, finally runs.
ResumeError_goes_on(s) ==
    /\ pc[s] = "error_yield"
    /\ pc' = [pc EXCEPT ![s] = "awaiting"]
    /\ UNCHANGED <<active_connections, closes, out, admitted, subscribed,
                   filters, last_heartbeat, event, delivered, received, now>>
    /\ UNCHANGED jobVars
    /\ UNCHANGED tokenVars
    /\ UNCHANGED envVars

ResumeError(s) ==
    /\ pc[s] = "error_yield"
    /\ Finally(s)
    /\ UNCHANGED <<out, admitted, subscribed, filters, last_heartbeat,
                   event, delivered, received, now>>
    /\ UNCHANGED jobVars
    /\ UNCHANGED tokenVars
    /\ UNCHANGED envVars

\* The subscription is exhausted: the async for ends, finally runs.
SubscriptionExhausted(s) ==
    /\ pc[s] = "awaiting"
    /\ Finally(s)
    /\ UNCHANGED <<out, admitted, subscribed, filters, last_heartbeat,
                   event, delivered, received, now>>
    /\ UNCHANGED jobVars
    /\ UNCHANGED tokenVars
    /\ UNCHANGED envVars

\* The consuming task is cancelled while the generator awaits the
\* subscription: except asyncio.CancelledError (line 100), then finally.
Cancelled(s) ==
    /\ pc[s] = "awaiting"
    /\ Finally(s)
    /\ UNCHANGED <<out, admitted, subscribed, filters, last_heartbeat,
                   event, delivered, received, now>>
    /\ UNCHANGED jobVars
    /\ UNCHANGED tokenVars
    /\ UNCHANGED envVars

\* aclose(): GeneratorExit is thrown at the yield the generator is suspended
\* at. It is neither CancelledError nor Exception, so inside the try (and
\* inside the except handler of line 109) only finally runs; at the yield of
\* line 44 and on a generator never started no finally encloses it; on a
\* generator that has ended aclose() does nothing.
AClose_skips_finally(s) ==
    /\ pc[s] # "awaiting"
    /\ pc' = [pc EXCEPT ![s] = "done"]
    /\ UNCHANGED <<active_connections, closes, out, admitted, subscribed,
                   filters, last_heartbeat, event, delivered, received, now>>
    /\ UNCHANGED jobVars
    /\ UNCHANGED tokenVars
    /\ UNCHANGED envVars

AClose(s) ==
    /\ pc[s] # "awaiting"
    /\ IF pc[s] \in {"connected_yield", "heartbeat_yield", "event_yield",
                     "error_yield"}
       THEN Finally(s)
       ELSE /\ pc' = [pc EXCEPT ![s] = "done"]
            /\ UNCHANGED <<active_connections, closes>>
    /\ UNCHANGED <<out, admitted, subscribed, filters, last_heartbeat,
                   event, delivered, received, now>>
    /\ UNCHANGED jobVars
    /\ UNCHANGED tokenVars
    /\ UNCHANGED envVars

\* Time passes on the event loop.
Tick ==
    /\ now < MaxNow
    /\ now' = now + 1
    /\ UNCHANGED <<active_connections, pc, out, admitted, subscribed,
                   closes, filters, last_heartbeat, event, delivered, received>>
    /\ UNCHANGED jobVars
    /\ UNCHANGED tokenVars
    /\ UNCHANGED envVars

\* A step of one of the connections of S, or of the clock.
StreamsStep(S) ==
    \/ \E s \in S : Admit(s)
    \/ \E s \in S : ResumeRejected(s)
    \/ \E s \in S : ResumeConnected(s)
    \/ \E s \in S, e \in SubEvents : SubscriptionEvent(s, e)
    \/ \E s \in S : ResumeHeartbeat(s)
    \/ \E s \in S : ResumeEvent(s)
    \/ \E s \in S : SubscriptionError(s)
    \/ \E s \in S : ResumeError(s)
    \/ \E s \in S : SubscriptionExhausted(s)
    \/ \E s \in S : Cancelled(s)
    \/ \E s \in S : AClose(s)
    \/ Tick

StreamStep == StreamsStep(Streams)

\* The filtered connection and one connection without filters.
PairStreams == {s \in Streams : s <= 2}

(***************************************************************************)
(* The download executor: one run of _download_video_task.                 *)
(***************************************************************************)

\* More bounds: the callbacks the engine makes in one run, and the wall
\* clock (tenths of a second) at which the run starts.
MaxCallbacks == 2
StartTime == 100
\* The callbacks of a run in which the two throttled tiers are compared.
MaxTierCallbacks == 3

\* Lines 329-332: the last-write times and percentages start at 0.0.
InitialLastUpdateTime_job_start == StartTime

InitialLastUpdateTime == 0
InitialLastPercentage == 0

\* Program constants. Times are in tenths of a second, so the 0.5 s and
\* 2.0 s of the source read 5 and 20; 99.9 per cent reads 999 tenths.
MIN_BYTES_FOR_COMPLETION == 1000000
BogusCap == 5
OverCap == 99
SsePercentStep == 1
SseInterval == 5
DbPercentStep == 5
DbInterval == 20
NearCompletionTenths == 999

\* ---- exact arithmetic on percentages (Python floats in the source) ----

Abs(x) == IF x < 0 THEN -x ELSE x

RECURSIVE GCD(_, _)
GCD(a, b) == IF b = 0 THEN a ELSE GCD(b, a % b)

\* The fraction n/d in lowest terms.
Frac(n, d) == LET g == GCD(n, d) IN [n |-> n \div g, d |-> d \div g]

Whole(k) == [n |-> k, d |-> 1]

\* p >= q, and |p - q| >= k for a whole number k.
FracGe(p, q) == p.n * q.d >= q.n * p.d
FracGt(p, q) == p.n * q.d > q.n * p.d
AbsDiffGe(p, q, k) == Abs(p.n * q.d - q.n * p.d) >= k * p.d * q.d

\* (downloaded_int / total_int) * 100
raw_percentage(downloaded_int, total_int) ==
    LET f == Frac(downloaded_int, total_int) IN Frac(100 * f.n, f.d)

\* Lines 351-369: the percentage reported for one callback.
Percentage_strict_bogus(downloaded_int, total_int) ==
    IF total_int # NoBytes /\ total_int # 0 /\ total_int > 0
         /\ downloaded_int # NoBytes
    THEN LET raw == raw_percentage(downloaded_int, total_int) IN
         IF FracGt(raw, Whole(100))
              /\ downloaded_int < MIN_BYTES_FOR_COMPLETION
         THEN Whole(BogusCap)
         ELSE IF FracGt(raw, Whole(100))
              THEN Whole(OverCap)
              ELSE raw
    ELSE Whole(0)

Percentage(downloaded_int, total_int) ==
    IF total_int # NoBytes /\ total_int # 0 /\ total_int > 0
         /\ downloaded_int # NoBytes
    THEN LET raw == raw_percentage(downloaded_int, total_int) IN
         IF FracGe(raw, Whole(100))
              /\ downloaded_int < MIN_BYTES_FOR_COMPLETION
         THEN Whole(BogusCap)
         ELSE IF FracGt(raw, Whole(100))
              THEN Whole(OverCap)
              ELSE raw
    ELSE Whole(0)

\* Lines 402-409 and 430-437.
NearCompletion(percentage) ==
    FracGe(percentage, Frac(NearCompletionTenths, 10))

should_send_sse_strict(percentage, current_time, last_pct, last_time) ==
    \/ Abs(percentage.n * last_pct.d - last_pct.n * percentage.d)
          > SsePercentStep * percentage.d * last_pct.d
    \/ current_time - last_time >= SseInterval
    \/ NearCompletion(percentage)

should_send_sse(percentage, current_time, last_pct, last_time) ==
    \/ AbsDiffGe(percentage, last_pct, SsePercentStep)
    \/ current_time - last_time >= SseInterval
    \/ NearCompletion(percentage)

should_update_db(percentage, current_time, last_pct, last_time) ==
    \/ AbsDiffGe(percentage, last_pct, DbPercentStep)
    \/ current_time - last_time >= DbInterval
    \/ NearCompletion(percentage)

\* ---- the stores ----

\* DownloadRepository.update_status: status is assigned unconditionally;
\* kw carries the started_at / completed_at keyword arguments.
update_status(row, status, progress, error_message, kw) ==
    [status |-> status,
     progress |-> IF progress # NoProgress THEN progress ELSE row.progress,
     started_at |->
        IF "started_at" \in kw THEN TRUE
        ELSE IF status = "downloading" /\ ~row.started_at THEN TRUE
        ELSE row.started_at,
     completed_at |->
        IF "completed_at" \in kw THEN TRUE
        ELSE IF status \in {"completed", "failed", "cancelled"}
                /\ ~row.completed_at THEN TRUE
        ELSE row.completed_at,
     error_message |->
        IF error_message # None THEN error_message ELSE row.error_message]

\* A scope, a scope prefix or an id is the sequence of its characters.
StartsWith(s, prefix) ==
    /\ Len(prefix) <= Len(s)
    /\ SubSeq(s, 1, Len(prefix)) = prefix

EndsWith(s, suffix) ==
    /\ Len(suffix) <= Len(s)
    /\ SubSeq(s, Len(s) - Len(suffix) + 1, Len(s)) = suffix

DOWNLOAD == <<"d", "o", "w", "n", "l", "o", "a", "d">>
QUEUE == <<"q", "u", "e", "u", "e">>
SYSTEM == <<"s", "y", "s", "t", "e", "m">>

\* f"download:{download_id}"
DownloadScope(id) == DOWNLOAD \o <<":">> \o id

\* RedisProgressService.revoke_user_sse_tokens: the tokens left in the
\* store after the scan. No prefix (None or "") is the empty sequence.
revoke_user_sse_tokens_any_user(stored, user_id, scope_prefix) ==
    {t \in stored :
        scope_prefix # <<>> /\ ~StartsWith(t.scope, scope_prefix)}

revoke_user_sse_tokens(stored, user_id, scope_prefix) ==
    {t \in stored :
        \/ t.user_id # user_id
        \/ scope_prefix # <<>> /\ ~StartsWith(t.scope, scope_prefix)}

\* The job this run is for, and what the token store holds when it starts.
download_id == <<"a">>
Users == {"u1", "u2"}
\* CreateSSETokenRequest.ttl: ge=60, le=3600 (seconds).
MIN_TTL == 60
MAX_TTL == 3600

\* The ttl of the tokens already stored, and seconds in the clock's tenths.
StoredTtl == MIN_TTL
Tenths(seconds) == seconds * 10

\* A key sse:token:<token>: the token, the scope, user_id and expires_at of
\* its value, and the time at which Redis expires the key.
StoredToken(n, user_id, scope) ==
    [token |-> n, user_id |-> user_id, scope |-> scope,
     expires_at |-> StartTime + Tenths(StoredTtl),
     redis_expiry |-> StartTime + Tenths(StoredTtl)]

StoredTokens ==
    {StoredToken(101, "u1", DownloadScope(download_id)),
     StoredToken(102, "u2", DownloadScope(download_id)),
     StoredToken(103, "u1", DownloadScope(<<"b">>)),
     StoredToken(104, "u1", QUEUE)}

\* The coroutines progress_hook hands to the loop.
SseTask(percentage, d) ==
    [kind |-> "_publish_sse_progress", percentage |-> percentage,
     downloaded_bytes |-> d.downloaded_bytes, total_bytes |-> d.total_bytes]
DbTask(percentage, d) ==
    [kind |-> "_update_download_status", percentage |-> percentage,
     downloaded_bytes |-> d.downloaded_bytes, total_bytes |-> d.total_bytes]

RemoveAt(q, i) == SubSeq(q, 1, i - 1) \o SubSeq(q, i + 1, Len(q))

\* ---- the collaborators ----

\* A bound: the number of times a collaborator fails or recovers in a run.
MaxFaults == 1

\* Redis or the database stops answering, or answers again. Every call
\* made while a collaborator is down raises in the client library.
Fault(component) ==
    /\ faults < MaxFaults
    /\ faults' = faults + 1
    /\ redis_up' = IF component = "redis" THEN ~redis_up ELSE redis_up
    /\ db_up' = IF component = "db" THEN ~db_up ELSE db_up
    /\ UNCHANGED <<history, webhooks>>
    /\ UNCHANGED jobVars
    /\ UNCHANGED streamVars
    /\ UNCHANGED tokenVars

\* ---- the callbacks the engine makes ----

\* A callback d carries status, downloaded_bytes and total_bytes (the value
\* of d.get("total_bytes") or d.get("total_bytes_estimate")); dt is the time
\* that passed since the previous reading of the clock.
DownloadedValues == {NoBytes, 500, 1000, 5000, 1000000, 49950000}
TotalValues == {NoBytes, 0, 1000, 100000, 1000000, 50000000}
HookInputs ==
    [status : {"downloading"}, downloaded_bytes : DownloadedValues,
     total_bytes : TotalValues]
        \cup {[status |-> "finished", downloaded_bytes |-> 1000000,
               total_bytes |-> 1000000]}
Elapsed == {0, 5, 20}

\* The callbacks tried in the runs of the whole job.
JobInputs ==
    {[status |-> "downloading", downloaded_bytes |-> 500,
      total_bytes |-> 100000],
     [status |-> "downloading", downloaded_bytes |-> 1000000,
      total_bytes |-> 1000000]}
JobElapsed == {0, 5}

\* The callbacks tried when the two throttled tiers are compared: 0.5 %,
\* 5 % and 5.6 % of a known total and an unknown total, made at once, 0.1 s
\* or 1.9 s after the previous one.
TierInputs ==
    {[status |-> "downloading", downloaded_bytes |-> 500,
      total_bytes |-> 100000],
     [status |-> "downloading", downloaded_bytes |-> 5000,
      total_bytes |-> 100000],
     [status |-> "downloading", downloaded_bytes |-> 5600,
      total_bytes |-> 100000],
     [status |-> "downloading", downloaded_bytes |-> 500,
      total_bytes |-> NoBytes]}
TierElapsed == {0, 1, 19}

\* RedisProgressService.set_progress_sync: SETEX through the synchronous
\* client, in the thread that calls it.
set_progress_sync_wrong_key(progress_data) ==
    UNCHANGED snapshot

set_progress_sync(progress_data) ==
    snapshot' = IF redis_up THEN progress_data ELSE snapshot

\* RedisProgressService.publish_download_progress, through publish_event
\* (lines 190-225, 269-283): a failure is logged and nothing is published.
publish_download_progress(status) ==
    published' = IF redis_up THEN Append(published, status) ELSE published

\* asyncio.run_coroutine_threadsafe(coro, loop) for each coroutine of coros:
\* the coroutine is scheduled on the loop and the caller goes on; the hook
\* drops the future it gets back.
run_coroutine_threadsafe_result(coros) ==
    /\ loopQ' = loopQ
    /\ published' = published
          \o [i \in 1..Cardinality({j \in 1..Len(coros) :
                  coros[j].kind = "_publish_sse_progress"}) |-> "downloading"]
    /\ db' = IF \E j \in 1..Len(coros) :
                   coros[j].kind = "_update_download_status"
             THEN update_status(db, "downloading", coros[1].percentage,
                                None, {})
             ELSE db

run_coroutine_threadsafe(coros) ==
    /\ loopQ' = loopQ \o coros
    /\ UNCHANGED <<db, published>>

\* progress_hook (lines 334-458), on the engine's worker thread.
progress_hook(d, dt) ==
    /\ engine = "running"
    /\ callbacks < MaxTierCallbacks
    /\ callbacks' = callbacks + 1
    /\ last_d' = d
    /\ clock' = clock + dt
    /\ IF d.status = "downloading"
       THEN LET percentage == Percentage(d.downloaded_bytes, d.total_bytes)
                current_time == clock'
                sse == should_send_sse(percentage, current_time,
                           last_sse_percentage, last_sse_update_time)
                dbw == should_update_db(percentage, current_time,
                           last_db_percentage, last_db_update_time)
            IN  \* Layer 1: the cache
                /\ set_progress_sync(
                       [status |-> "downloading",
                        progress |->
                           [percentage |-> percentage,
                            status |-> "downloading",
                            downloaded_bytes |-> d.downloaded_bytes,
                            total_bytes |-> d.total_bytes]])
                \* Layers 2 and 3: SSE and database
                /\ run_coroutine_threadsafe(
                       (IF sse THEN <<SseTask(percentage, d)>> ELSE <<>>)
                       \o (IF dbw THEN <<DbTask(percentage, d)>> ELSE <<>>))
                /\ IF sse
                   THEN /\ last_sse_update_time' = current_time
                        /\ last_sse_percentage' = percentage
                   ELSE UNCHANGED <<last_sse_update_time,
                                    last_sse_percentage>>
                /\ IF dbw
                   THEN /\ last_db_update_time' = current_time
                        /\ last_db_percentage' = percentage
                   ELSE UNCHANGED <<last_db_update_time, last_db_percentage>>
       ELSE UNCHANGED <<snapshot, loopQ, db, published,
                        last_sse_update_time, last_sse_percentage,
                        last_db_update_time, last_db_percentage>>
    /\ UNCHANGED <<taskPc, engine, tokens>>
    /\ UNCHANGED streamVars
    /\ UNCHANGED tokenVars
    /\ UNCHANGED envVars

\* The loop runs a coroutine the hook handed to it. The coroutines wait on
\* Redis and on the database, so they finish in any order.
\* _publish_sse_progress: publish_download_progress on download:updates.
RunSseTask(i) ==
    /\ taskPc # "returned"
    /\ i \in 1..Len(loopQ)
    /\ loopQ[i].kind = "_publish_sse_progress"
    /\ publish_download_progress("downloading")
    /\ loopQ' = RemoveAt(loopQ, i)
    /\ UNCHANGED <<taskPc, engine, db, snapshot, tokens,
                   last_sse_percentage, last_sse_update_time,
                   last_db_percentage, last_db_update_time, clock, callbacks,
                   last_d>>
    /\ UNCHANGED streamVars
    /\ UNCHANGED tokenVars
    /\ UNCHANGED envVars

\* _update_download_status(status="downloading", publish_sse=False).
RunDbTask(i) ==
    /\ taskPc # "returned"
    /\ i \in 1..Len(loopQ)
    /\ loopQ[i].kind = "_update_download_status"
    /\ db' = IF db_up
             THEN update_status(db, "downloading", loopQ[i].percentage,
                                None, {})
             ELSE db
    /\ loopQ' = RemoveAt(loopQ, i)
    /\ UNCHANGED <<taskPc, engine, snapshot, published, tokens,
                   last_sse_percentage, last_sse_update_time,
                   last_db_percentage, last_db_update_time, clock, callbacks,
                   last_d>>
    /\ UNCHANGED streamVars
    /\ UNCHANGED tokenVars
    /\ UNCHANGED envVars

\* ---- the coroutine _download_video_task ----

Terminal == {"completed", "failed", "cancelled"}

throttleVars == <<last_sse_percentage, last_sse_update_time,
                  last_db_percentage, last_db_update_time, clock, callbacks,
                  last_d>>

\* The text of the exception a database call raises while it is down.
DbErrorText == "connection refused"

\* Lines 262-269: status downloading with started_at, its SSE event, and
\* the download_started webhooks. The database write is not guarded: when
\* it raises the coroutine is in its except block.
StartDownloading ==
    /\ taskPc = "start"
    /\ IF db_up
       THEN /\ db' = update_status(db, "downloading", NoProgress, None,
                                   {"started_at"})
            /\ publish_download_progress("downloading")
            /\ webhooks' = Append(webhooks, "download_started")
            /\ taskPc' = "extract"
       ELSE /\ taskPc' = "except_db"
            /\ UNCHANGED <<db, published, webhooks>>
    /\ UNCHANGED <<engine, snapshot, loopQ, tokens, throttleVars>>
    /\ UNCHANGED <<redis_up, db_up, faults, history>>
    /\ UNCHANGED streamVars
    /\ UNCHANGED tokenVars

\* The text of an error the engine raises (DownloadError, ExtractorError).
EngineErrorText == "ERROR: HTTP Error 403: Forbidden"

\* YTDLPService.extract_info, lines 51-58: the engine raises during the
\* extraction; the service logs the error and answers None, and the None
\* raises Exception("Failed to extract video information") at line 275.
ExtractInfoRaises ==
    /\ taskPc = "extract"
    /\ engine' = "extract_error"
    /\ taskPc' = "except"
    /\ UNCHANGED <<db, snapshot, published, loopQ, tokens, throttleVars>>
    /\ UNCHANGED streamVars
    /\ UNCHANGED tokenVars
    /\ UNCHANGED envVars

\* Lines 272-275: extract_info answers with the video's information, or
\* with None (it logs the engine's errors), and None raises.
ExtractInfo(found) ==
    /\ taskPc = "extract"
    /\ taskPc' = IF found THEN "metadata" ELSE "except"
    /\ UNCHANGED <<engine, db, snapshot, published, loopQ, tokens, throttleVars>>
    /\ UNCHANGED streamVars
    /\ UNCHANGED tokenVars
    /\ UNCHANGED envVars

\* Lines 277-306: the title and metadata, status still downloading.
UpdateMetadata ==
    /\ taskPc = "metadata"
    /\ IF db_up
       THEN /\ db' = update_status(db, "downloading", NoProgress, None, {})
            /\ publish_download_progress("downloading")
            /\ taskPc' = "launch"
       ELSE /\ taskPc' = "except_db"
            /\ UNCHANGED <<db, published>>
    /\ UNCHANGED <<engine, snapshot, loopQ, tokens, throttleVars>>
    /\ UNCHANGED streamVars
    /\ UNCHANGED tokenVars
    /\ UNCHANGED envVars

\* Lines 326-332 and 461-467: capture the loop, reset the throttling
\* variables, start the engine on an executor thread and await it.
LaunchDownload ==
    /\ taskPc = "launch"
    /\ last_db_update_time' = InitialLastUpdateTime
    /\ last_db_percentage' = Whole(InitialLastPercentage)
    /\ last_sse_update_time' = InitialLastUpdateTime
    /\ last_sse_percentage' = Whole(InitialLastPercentage)
    /\ engine' = "running"
    /\ taskPc' = "downloading"
    /\ UNCHANGED <<db, snapshot, published, loopQ, tokens, clock,
                   callbacks, last_d>>
    /\ UNCHANGED streamVars
    /\ UNCHANGED tokenVars
    /\ UNCHANGED envVars

\* YTDLPService.download_video returns: a path whose file exists, or a path
\* without a file or None (it logs the engine's errors and returns None).
EngineReturns(file_exists) ==
    /\ engine = "running"
    /\ engine' = IF file_exists THEN "file" ELSE "no_file"
    /\ UNCHANGED <<taskPc, db, snapshot, published, loopQ, tokens, throttleVars>>
    /\ UNCHANGED streamVars
    /\ UNCHANGED tokenVars
    /\ UNCHANGED envVars

\* YTDLPService.download_video, lines 180-185: the engine raises during the
\* download; the service logs the error and returns None.
EngineRaises ==
    /\ engine = "running"
    /\ engine' = "download_error"
    /\ UNCHANGED <<taskPc, db, snapshot, published, loopQ, tokens, throttleVars>>
    /\ UNCHANGED streamVars
    /\ UNCHANGED tokenVars
    /\ UNCHANGED envVars

\* Lines 471-497: the file has no known extension and no sibling with one,
\* so result_path + ".mp4" is measured and os.path.getsize raises.
FileSizeFails ==
    /\ taskPc = "downloading"
    /\ engine = "file"
    /\ taskPc' = "except_os"
    /\ UNCHANGED <<engine, db, snapshot, published, loopQ, tokens, throttleVars>>
    /\ UNCHANGED streamVars
    /\ UNCHANGED tokenVars
    /\ UNCHANGED envVars

\* Lines 469-524: the file is there, status completed.
MarkCompleted ==
    /\ taskPc = "downloading"
    /\ engine = "file"
    /\ IF db_up
       THEN /\ db' = update_status(db, "completed", Whole(100), None,
                                   {"completed_at"})
            /\ publish_download_progress("completed")
            /\ taskPc' = "history"
       ELSE /\ taskPc' = "except_db"
            /\ UNCHANGED <<db, published>>
    /\ UNCHANGED <<engine, snapshot, loopQ, tokens, throttleVars>>
    /\ UNCHANGED streamVars
    /\ UNCHANGED tokenVars
    /\ UNCHANGED envVars

\* Lines 572-582: no file, status failed.
MarkFailedNoFile ==
    /\ taskPc = "downloading"
    /\ engine \in {"no_file", "download_error"}
    /\ IF db_up
       THEN /\ db' = update_status(db, "failed", NoProgress,
                                   "Download completed but file not found",
                                   {"completed_at"})
            /\ publish_download_progress("failed")
            /\ taskPc' = "history"
       ELSE /\ taskPc' = "except_db"
            /\ UNCHANGED <<db, published>>
    /\ UNCHANGED <<engine, snapshot, loopQ, tokens, throttleVars>>
    /\ UNCHANGED streamVars
    /\ UNCHANGED tokenVars
    /\ UNCHANGED envVars

\* Lines 625-638: an exception was raised, status failed with str(e). The
\* write is inside the except block: when it raises, the exception leaves
\* the coroutine and asyncio.run closes the loop.
MarkFailedException ==
    /\ taskPc \in {"except", "except_os", "except_db"}
    /\ IF db_up
       THEN /\ db' = update_status(db, "failed", NoProgress,
                         IF taskPc = "except"
                         THEN "Failed to extract video information"
                         ELSE IF taskPc = "except_os"
                         THEN "[Errno 2] No such file or directory"
                         ELSE DbErrorText,
                         {"completed_at"})
            /\ publish_download_progress("failed")
            /\ taskPc' = "history_handler"
            /\ UNCHANGED loopQ
       ELSE /\ taskPc' = "raised"
            /\ loopQ' = <<>>
            /\ UNCHANGED <<db, published>>
    /\ UNCHANGED <<engine, snapshot, tokens, throttleVars>>
    /\ UNCHANGED streamVars
    /\ UNCHANGED tokenVars
    /\ UNCHANGED envVars

\* The history record and the webhook (lines 526-541, 584-595, 640-651).
\* _create_download_history is not guarded: from the try body its exception
\* reaches the except block, from the except block it leaves the coroutine.
\* _trigger_webhooks catches everything.
CreateHistory ==
    /\ taskPc \in {"history", "history_handler"}
    /\ IF db_up
       THEN LET status == IF taskPc = "history" /\ engine = "file"
                          THEN "completed" ELSE "failed"
            IN  /\ history' = Append(history, status)
                /\ webhooks' = Append(webhooks,
                                  IF status = "completed"
                                  THEN "download_completed"
                                  ELSE "download_failed")
                /\ taskPc' = "delete_progress"
                /\ UNCHANGED loopQ
       ELSE /\ taskPc' = IF taskPc = "history" THEN "except_db"
                         ELSE "raised"
            /\ loopQ' = IF taskPc = "history" THEN loopQ ELSE <<>>
            /\ UNCHANGED <<history, webhooks>>
    /\ UNCHANGED <<engine, db, snapshot, published, tokens, throttleVars>>
    /\ UNCHANGED <<redis_up, db_up, faults>>
    /\ UNCHANGED streamVars
    /\ UNCHANGED tokenVars

\* redis_progress_service.delete_progress (lines 544, 598, 654); the
\* service catches its own failures (redis_progress.py 117-133).
DeleteProgress_keeps_key ==
    /\ taskPc = "delete_progress"
    /\ taskPc' = "revoke"
    /\ UNCHANGED <<engine, db, snapshot, published, loopQ, tokens,
                   throttleVars>>
    /\ UNCHANGED streamVars
    /\ UNCHANGED tokenVars
    /\ UNCHANGED envVars

DeleteProgress_raises ==
    /\ taskPc = "delete_progress"
    /\ snapshot' = IF redis_up THEN NoSnapshot ELSE snapshot
    /\ taskPc' = IF redis_up THEN "revoke" ELSE "except_db"
    /\ UNCHANGED <<engine, db, published, loopQ, tokens,
                   throttleVars>>
    /\ UNCHANGED streamVars
    /\ UNCHANGED tokenVars
    /\ UNCHANGED envVars

DeleteProgress ==
    /\ taskPc = "delete_progress"
    /\ snapshot' = IF redis_up THEN NoSnapshot ELSE snapshot
    /\ taskPc' = "revoke"
    /\ UNCHANGED <<engine, db, published, loopQ, tokens,
                   throttleVars>>
    /\ UNCHANGED streamVars
    /\ UNCHANGED tokenVars
    /\ UNCHANGED envVars

\* Lines 546-564, 600-617, 656-673: revoke_user_sse_tokens(user_id="*",
\* scope_prefix=f"download:{download_id}"), inside try/except.
RevokeTokens ==
    /\ taskPc = "revoke"
    /\ tokens' = IF redis_up
                 THEN revoke_user_sse_tokens(tokens, "*",
                                             DownloadScope(download_id))
                 ELSE tokens
    /\ taskPc' = "return"
    /\ UNCHANGED <<engine, db, snapshot, published, loopQ, throttleVars>>
    /\ UNCHANGED streamVars
    /\ UNCHANGED tokenVars
    /\ UNCHANGED envVars

\* The coroutine returns and asyncio.run (download_video_task) cancels
\* whatever is still scheduled on the loop before closing it.
Return ==
    /\ taskPc = "return"
    /\ taskPc' = "returned"
    /\ loopQ' = <<>>
    /\ UNCHANGED <<engine, db, snapshot, published, tokens,
                   throttleVars>>
    /\ UNCHANGED streamVars
    /\ UNCHANGED tokenVars
    /\ UNCHANGED envVars

\* ---- POST /downloads/{download_id}/cancel ----

\* cancel_download (downloads.py 229-269): a job that is completed, failed
\* or cancelled is left alone; otherwise the row is set to cancelled. The
\* executor's task is not revoked and goes on.
cancel_download ==
    /\ IF ~db_up
       THEN /\ response' = [op |-> "cancel_download", status |-> 500,
                            cancelled |-> FALSE, before |-> db.status]
            /\ UNCHANGED db
       ELSE IF db.status \in {"completed", "failed", "cancelled"}
       THEN /\ response' = [op |-> "cancel_download", status |-> 200,
                            cancelled |-> FALSE, before |-> db.status]
            /\ UNCHANGED db
       ELSE /\ db' = update_status(db, "cancelled", NoProgress,
                                   "Cancelled by user", {})
            /\ response' = [op |-> "cancel_download", status |-> 200,
                            cancelled |-> TRUE, before |-> db.status]
    /\ UNCHANGED <<taskPc, engine, snapshot, published, loopQ, tokens,
                   throttleVars>>
    /\ UNCHANGED <<advances, issued, jobs>>
    /\ UNCHANGED streamVars
    /\ UNCHANGED envVars

\* ---- GET /downloads/{download_id} ----

\* dict.get(key, default)
Get(dict, key, default) ==
    IF key \in DOMAIN dict THEN dict[key] ELSE default

\* No DownloadProgress (progress_info is None).
NoProgressInfo ==
    [percentage |-> NoProgress, status |-> None,
     downloaded_bytes |-> NoBytes, total_bytes |-> NoBytes]

\* RedisProgressService.get_progress: the stored dictionary, or None when
\* the key is absent or Redis fails.
get_progress ==
    IF redis_up /\ snapshot # NoSnapshot THEN snapshot ELSE NoSnapshot

\* get_download_status, lines 157-182: for a downloading job the progress is
\* built from the keys found at the top of the stored dictionary, otherwise
\* from the row (whose byte counts the model does not keep).
DownloadProgress(redis_progress) ==
    [percentage |-> Get(redis_progress, "percentage", Whole(0)),
     status |-> Get(redis_progress, "status", "downloading"),
     downloaded_bytes |-> Get(redis_progress, "downloaded_bytes", NoBytes),
     total_bytes |-> Get(redis_progress, "total_bytes", NoBytes)]

get_download_status ==
    /\ IF ~db_up
       THEN response' = [op |-> "get_download_status", code |-> 500,
                         status |-> None, progress |-> NoProgressInfo]
       ELSE LET redis_progress ==
                    IF db.status = "downloading" THEN get_progress
                    ELSE NoSnapshot
                progress_info ==
                    IF redis_progress # NoSnapshot
                    THEN DownloadProgress(redis_progress)
                    ELSE IF db.progress # NoProgress
                    THEN [percentage |-> db.progress, status |-> db.status,
                          downloaded_bytes |-> NoBytes,
                          total_bytes |-> NoBytes]
                    ELSE NoProgressInfo
            IN  response' = [op |-> "get_download_status", code |-> 200,
                             status |-> db.status,
                             progress |-> progress_info]
    /\ UNCHANGED jobVars
    /\ UNCHANGED <<advances, issued, jobs>>
    /\ UNCHANGED streamVars
    /\ UNCHANGED envVars

\* ---- the token endpoints ----

\* More bounds: the tokens create_sse_token may issue in one run and the
\* number of times the clock is advanced.
MaxTokens == 1
MaxAdvances == 2

\* Everything of the job's state but the token store and the clock.
tokenFrame == <<taskPc, engine, db, snapshot, published, loopQ,
                last_sse_percentage, last_sse_update_time,
                last_db_percentage, last_db_update_time, callbacks, last_d>>

\* scope.split(":", 1)[1]: what follows the first colon.
FirstColon(s) ==
    CHOOSE i \in 1..Len(s) : s[i] = ":" /\ \A j \in 1..(i - 1) : s[j] # ":"
AfterFirstColon(s) == SubSeq(s, FirstColon(s) + 1, Len(s))

\* create_sse_token, lines 317-321: the scope grammar.
ValidScopeFormat_allows_empty_id(scope) ==
    \/ scope = QUEUE
    \/ scope = SYSTEM
    \/ StartsWith(scope, DOWNLOAD \o <<":">>)

ValidScopeFormat(scope) ==
    \/ scope = QUEUE
    \/ scope = SYSTEM
    \/ /\ StartsWith(scope, DOWNLOAD \o <<":">>)
       /\ Len(AfterFirstColon(scope)) > 0

\* Redis drops a key once the time is past its expiry.
RedisExpire(store, time) == {k \in store : ~(time > k.redis_expiry)}

\* RedisProgressService.get_sse_token: the values stored under the key.
get_sse_token(store, token) == {k \in store : k.token = token}

\* security._scope_matches
_scope_matches_prefix_only(token_scope, required_scope) ==
    IF token_scope = required_scope THEN TRUE
    ELSE IF EndsWith(required_scope, <<":", "*">>)
         THEN LET scope_prefix ==
                      SubSeq(required_scope, 1, Len(required_scope) - 2)
              IN  StartsWith(token_scope, scope_prefix)
         ELSE FALSE

_scope_matches(token_scope, required_scope) ==
    IF token_scope = required_scope THEN TRUE
    ELSE IF EndsWith(required_scope, <<":", "*">>)
         THEN LET scope_prefix ==
                      SubSeq(required_scope, 1, Len(required_scope) - 2)
              IN  StartsWith(token_scope, scope_prefix \o <<":">>)
         ELSE FALSE

\* SSETokenData.matches_scope
matches_scope(self_scope, required_scope) ==
    IF self_scope = required_scope THEN TRUE
    ELSE IF EndsWith(required_scope, <<":", "*">>)
         THEN LET scope_prefix ==
                      SubSeq(required_scope, 1, Len(required_scope) - 2)
              IN  StartsWith(self_scope, scope_prefix \o <<":">>)
         ELSE FALSE

\* The requests tried. A token is named by a number, 0 standing for no
\* token or one that does not start with "sse_", 999 for one never issued.
CreateRequest(scope, ttl, delay) ==
    [user_id |-> "u2", scope |-> scope, ttl |-> ttl, delay |-> delay]
CreateRequests ==
    {CreateRequest(QUEUE, MIN_TTL, 0),
     CreateRequest(QUEUE, MIN_TTL, 1),
     CreateRequest(SYSTEM, MAX_TTL, 0),
     CreateRequest(DownloadScope(<<"a">>), MIN_TTL, 1),
     CreateRequest(DownloadScope(<<"b">>), MIN_TTL, 0),
     CreateRequest(DOWNLOAD \o <<":">>, MIN_TTL, 0),
     CreateRequest(DOWNLOAD, MIN_TTL, 0),
     CreateRequest(<<"q">>, MAX_TTL, 0),
     CreateRequest(QUEUE, MIN_TTL - 1, 0),
     CreateRequest(QUEUE, MAX_TTL + 1, 0),
     CreateRequest(DownloadScope(<<"b">>), MAX_TTL + 1, 0),
     CreateRequest(<<"q">>, MIN_TTL - 1, 0)}
RequiredScopes ==
    {QUEUE, DownloadScope(<<"a">>), DOWNLOAD \o <<":", "*">>}
TokenNames == {101, 104, 999} \cup (1..MaxTokens)
RevokeRequest(user_id, scope_prefix) ==
    [user_id |-> user_id, scope_prefix |-> scope_prefix]
RevokeRequests ==
    {RevokeRequest("u1", DownloadScope(<<"a">>)),
     RevokeRequest("u1", <<>>),
     RevokeRequest("u2", DOWNLOAD),
     RevokeRequest("*", DownloadScope(<<"a">>))}
ClockSteps == {1, Tenths(MIN_TTL)}

\* RedisProgressService.store_sse_token (lines 343-372): SETEX of the key;
\* a failure is logged and raised again.
store_sse_token_swallows == FALSE

store_sse_token_raises == ~redis_up

store_sse_token(store, value, time) ==
    IF redis_up THEN RedisExpire(store, time) \cup {value} ELSE store

create_sse_token_no_lookup(user_id, scope, ttl, delay) ==
    /\ issued < MaxTokens
    /\ IF ttl < MIN_TTL \/ ttl > MAX_TTL
       THEN /\ response' = [op |-> "create", user_id |-> user_id,
                            scope |-> scope, ttl |-> ttl, status |-> 422,
                            token |-> 0, at |-> clock]
            /\ UNCHANGED <<tokens, clock, issued>>
       ELSE IF ~ValidScopeFormat(scope)
       THEN /\ response' = [op |-> "create", user_id |-> user_id,
                            scope |-> scope, ttl |-> ttl, status |-> 400,
                            token |-> 0, at |-> clock]
            /\ UNCHANGED <<tokens, clock, issued>>
       ELSE IF store_sse_token_raises
       THEN /\ response' = [op |-> "create", user_id |-> user_id,
                            scope |-> scope, ttl |-> ttl, status |-> 500,
                            token |-> 0, at |-> clock]
            /\ UNCHANGED <<tokens, clock, issued>>
       ELSE LET expires_at == clock + Tenths(ttl)
                stored_at == clock + delay
            IN  /\ issued' = issued + 1
                /\ clock' = stored_at
                /\ tokens' = store_sse_token(tokens,
                      [token |-> issued + 1, user_id |-> user_id,
                       scope |-> scope, expires_at |-> expires_at,
                       redis_expiry |-> stored_at + Tenths(ttl)],
                      stored_at)
                /\ response' = [op |-> "create", user_id |-> user_id,
                                scope |-> scope, ttl |-> ttl,
                                status |-> 200, token |-> issued + 1,
                                at |-> clock]
    /\ UNCHANGED <<advances, jobs>>
    /\ UNCHANGED tokenFrame
    /\ UNCHANGED streamVars
    /\ UNCHANGED envVars

\* POST /events/token: CreateSSETokenRequest validates the ttl, then
\* create_sse_token checks the scope grammar and the job, generates the
\* token and stores it. delay is the time between the reading of the
\* clock in generate_sse_token and the SETEX reaching Redis.
create_sse_token(user_id, scope, ttl, delay) ==
    /\ issued < MaxTokens
    /\ IF ttl < MIN_TTL \/ ttl > MAX_TTL
       THEN /\ response' = [op |-> "create", user_id |-> user_id,
                            scope |-> scope, ttl |-> ttl, status |-> 422,
                            token |-> 0, at |-> clock]
            /\ UNCHANGED <<tokens, clock, issued>>
       ELSE IF ~ValidScopeFormat(scope)
       THEN /\ response' = [op |-> "create", user_id |-> user_id,
                            scope |-> scope, ttl |-> ttl, status |-> 400,
                            token |-> 0, at |-> clock]
            /\ UNCHANGED <<tokens, clock, issued>>
       ELSE IF /\ StartsWith(scope, DOWNLOAD \o <<":">>)
               /\ AfterFirstColon(scope) \notin jobs
       THEN /\ response' = [op |-> "create", user_id |-> user_id,
                            scope |-> scope, ttl |-> ttl, status |-> 404,
                            token |-> 0, at |-> clock]
            /\ UNCHANGED <<tokens, clock, issued>>
       ELSE IF store_sse_token_raises
       THEN /\ response' = [op |-> "create", user_id |-> user_id,
                            scope |-> scope, ttl |-> ttl, status |-> 500,
                            token |-> 0, at |-> clock]
            /\ UNCHANGED <<tokens, clock, issued>>
       ELSE LET expires_at == clock + Tenths(ttl)
                stored_at == clock + delay
            IN  /\ issued' = issued + 1
                /\ clock' = stored_at
                /\ tokens' = store_sse_token(tokens,
                      [token |-> issued + 1, user_id |-> user_id,
                       scope |-> scope, expires_at |-> expires_at,
                       redis_expiry |-> stored_at + Tenths(ttl)],
                      stored_at)
                /\ response' = [op |-> "create", user_id |-> user_id,
                                scope |-> scope, ttl |-> ttl,
                                status |-> 200, token |-> issued + 1,
                                at |-> clock]
    /\ UNCHANGED <<advances, jobs>>
    /\ UNCHANGED tokenFrame
    /\ UNCHANGED streamVars
    /\ UNCHANGED envVars

\* security.validate_sse_token
validate_sse_token_one_reason(token, required_scope) ==
    /\ LET token_data == get_sse_token(tokens, token)
           answer(status, data) ==
               [op |-> "validate", token |-> token,
                required_scope |-> required_scope, status |-> status,
                token_data |-> data, at |-> clock]
       IN  IF token_data = {}
           THEN /\ response' = answer(401, {})
                /\ UNCHANGED tokens
           ELSE LET k == CHOOSE k \in token_data : TRUE IN
                IF clock > k.expires_at
                THEN /\ tokens' = tokens \ token_data
                     /\ response' = answer(401, {})
                ELSE IF ~_scope_matches(k.scope, required_scope)
                THEN /\ response' = answer(401, {})
                     /\ UNCHANGED tokens
                ELSE /\ response' = answer(200, token_data)
                     /\ UNCHANGED tokens
    /\ UNCHANGED <<clock, advances, issued, jobs>>
    /\ UNCHANGED tokenFrame
    /\ UNCHANGED streamVars
    /\ UNCHANGED envVars

validate_sse_token(token, required_scope) ==
    /\ LET token_data == get_sse_token(tokens, token)
           answer(status, data) ==
               [op |-> "validate", token |-> token,
                required_scope |-> required_scope, status |-> status,
                token_data |-> data, at |-> clock]
       IN  IF token_data = {}
           THEN /\ response' = answer(401, {})
                /\ UNCHANGED tokens
           ELSE LET k == CHOOSE k \in token_data : TRUE IN
                IF clock > k.expires_at
                THEN \* delete_sse_token
                     /\ tokens' = tokens \ token_data
                     /\ response' = answer(401, {})
                ELSE IF ~_scope_matches(k.scope, required_scope)
                THEN /\ response' = answer(403, {})
                     /\ UNCHANGED tokens
                ELSE /\ response' = answer(200, token_data)
                     /\ UNCHANGED tokens
    /\ UNCHANGED <<clock, advances, issued, jobs>>
    /\ UNCHANGED tokenFrame
    /\ UNCHANGED streamVars
    /\ UNCHANGED envVars

\* security.get_current_sse_token
get_current_sse_token(token) ==
    /\ response' =
          [op |-> "get_current", token |-> token,
           status |-> IF token = 0 THEN 401
                      ELSE IF get_sse_token(tokens, token) = {} THEN 401
                      ELSE 200,
           at |-> clock]
    /\ UNCHANGED <<tokens, clock, advances, issued, jobs>>
    /\ UNCHANGED tokenFrame
    /\ UNCHANGED streamVars
    /\ UNCHANGED envVars

\* RedisProgressService.revoke_user_sse_tokens: the count it returns, one
\* for each key it deletes.
revoked_count(stored, user_id, scope_prefix) ==
    Cardinality({k \in stored :
        /\ ~(k.user_id # user_id)
        /\ ~(scope_prefix # <<>> /\ ~StartsWith(k.scope, scope_prefix))})

\* A call of revoke_user_sse_tokens(user_id, scope_prefix).
Revoke(user_id, scope_prefix) ==
    /\ tokens' = revoke_user_sse_tokens(tokens, user_id, scope_prefix)
    /\ response' = [op |-> "revoke", user_id |-> user_id,
                    scope_prefix |-> scope_prefix,
                    count |-> revoked_count(tokens, user_id, scope_prefix),
                    at |-> clock]
    /\ UNCHANGED <<clock, advances, issued, jobs>>
    /\ UNCHANGED tokenFrame
    /\ UNCHANGED streamVars
    /\ UNCHANGED envVars

\* Time passes; Redis expires the keys that are due.
AdvanceTime(dt) ==
    /\ advances < MaxAdvances
    /\ advances' = advances + 1
    /\ clock' = clock + dt
    /\ tokens' = RedisExpire(tokens, clock + dt)
    /\ UNCHANGED <<issued, jobs, response>>
    /\ UNCHANGED tokenFrame
    /\ UNCHANGED streamVars
    /\ UNCHANGED envVars

\* The scopes the two matching functions are compared on.
Scopes ==
    {QUEUE, SYSTEM, DOWNLOAD, DownloadScope(<<"a">>), DownloadScope(<<"b">>),
     DownloadScope(<<"a", ":", "b">>), DOWNLOAD \o <<":", "*">>,
     DOWNLOAD \o <<"s", ":", "a">>, QUEUE \o <<":", "*">>, <<":", "*">>,
     <<"*">>, <<>>}

\* One call of each matching function on the same arguments.
CheckScope(token_scope, required_scope) ==
    /\ response' =
          [op |-> "matches_scope", token_scope |-> token_scope,
           required_scope |-> required_scope,
           by_token |-> matches_scope(token_scope, required_scope),
           by_security |-> _scope_matches(token_scope, required_scope)]
    /\ UNCHANGED <<advances, issued, jobs>>
    /\ UNCHANGED jobVars
    /\ UNCHANGED streamVars
    /\ UNCHANGED envVars

\* ---- GET /events/stream ----

\* The channels of the Progress Store, and the list the endpoint subscribes
\* to when the client names none (line 90).
DefaultChannels ==
    <<"download:updates", "queue:updates", "system:notifications">>

\* The query parameters a client may send: channels, already split at the
\* commas and stripped (line 87), and download_id; the empty sequence is
\* a parameter left out or empty.
ChannelParams ==
    {<<>>, <<"download:updates">>,
     <<"queue:updates", "system:notifications">>, <<"stats:updates">>}
DownloadIdParams == {<<>>, <<"a">>, <<"b">>}
ClientParams == [channels : ChannelParams, download_id : DownloadIdParams]

\* The scopes create_sse_token issues tokens for.
StreamScopes ==
    {DownloadScope(<<"a">>), DownloadScope(<<"b">>), QUEUE, SYSTEM}

\* Lines 84-130 of event_stream: the channels and the filters handed to
\* EventService.event_stream; no filters is the empty set.
StreamArguments_client_filter_wins(token_scope, channels, download_id_param) ==
    LET channel_list == IF channels # <<>> THEN channels ELSE DefaultChannels
        filters0 == IF download_id_param # <<>>
                    THEN {<<"download_id", download_id_param>>}
                    ELSE {}
    IN  IF StartsWith(token_scope, DOWNLOAD \o <<":">>)
        THEN [channels |-> <<"download:updates">>,
              filters |->
                 IF filters0 # {} THEN filters0
                 ELSE {<<"download_id", AfterFirstColon(token_scope)>>}]
        ELSE IF token_scope = QUEUE
        THEN [channels |-> <<"queue:updates">>, filters |-> filters0]
        ELSE IF token_scope = SYSTEM
        THEN [channels |-> <<"system:notifications">>, filters |-> filters0]
        ELSE [channels |-> channel_list, filters |-> filters0]

StreamArguments(token_scope, channels, download_id_param) ==
    LET channel_list == IF channels # <<>> THEN channels ELSE DefaultChannels
        filters0 == IF download_id_param # <<>>
                    THEN {<<"download_id", download_id_param>>}
                    ELSE {}
    IN  IF StartsWith(token_scope, DOWNLOAD \o <<":">>)
        THEN [channels |-> <<"download:updates">>,
              filters |->
                 {kv \in filters0 : kv[1] # "download_id"}
                    \cup {<<"download_id", AfterFirstColon(token_scope)>>}]
        ELSE IF token_scope = QUEUE
        THEN [channels |-> <<"queue:updates">>, filters |-> filters0]
        ELSE IF token_scope = SYSTEM
        THEN [channels |-> <<"system:notifications">>, filters |-> filters0]
        ELSE [channels |-> channel_list, filters |-> filters0]

\* What the publishers of redis_progress.py put on the channels
\* (publish_download_progress, publish_queue_update,
\* publish_system_notification, publish_stats_update).
PublishedEvents ==
    {[channel |-> "download:updates", type |-> "download_progress",
      data |-> [download_id |-> id, status |-> "downloading"]] :
         id \in {<<"a">>, <<"b">>}}
    \cup
    {[channel |-> "queue:updates", type |-> "queue_update",
      data |-> [action |-> "status_changed", download_id |-> id]] :
         id \in {<<"a">>, <<"b">>}}
    \cup
    {[channel |-> "system:notifications", type |-> "system_notification",
      data |-> [notification_type |-> "info", message |-> "m"]],
     [channel |-> "stats:updates", type |-> "stats_update",
      data |-> [total_downloads |-> "1"]]}

\* The published events EventService.event_stream forwards when called with
\* these arguments: those of a subscribed channel that pass the filters.
Observed(arguments) ==
    {e \in PublishedEvents :
        /\ \E i \in 1..Len(arguments.channels) :
              arguments.channels[i] = e.channel
        /\ arguments.filters = {} \/ _matches_filters(e, arguments.filters)}

\* Two requests to GET /events/stream admitted by tokens of the same scope,
\* each with its own query parameters.
event_stream(token_scope, first, second) ==
    /\ response' =
          [op |-> "event_stream", token_scope |-> token_scope,
           first |-> first, second |-> second,
           arguments_first |->
              StreamArguments(token_scope, first.channels, first.download_id),
           arguments_second |->
              StreamArguments(token_scope, second.channels,
                              second.download_id),
           observed_first |->
              Observed(StreamArguments(token_scope, first.channels,
                                       first.download_id)),
           observed_second |->
              Observed(StreamArguments(token_scope, second.channels,
                                       second.download_id))]
    /\ UNCHANGED <<advances, issued, jobs>>
    /\ UNCHANGED jobVars
    /\ UNCHANGED streamVars
    /\ UNCHANGED envVars

\* ---- initial states and specifications ----

\* Both collaborators answer; nothing was written for the run yet.
InitEnv ==
    /\ redis_up = TRUE
    /\ db_up = TRUE
    /\ faults = 0
    /\ history = <<>>
    /\ webhooks = <<>>

InitJob ==
    /\ InitEnv
    /\ taskPc = "start"
    /\ engine = "idle"
    /\ db = [status |-> "pending", progress |-> NoProgress, started_at |-> FALSE,
             completed_at |-> FALSE, error_message |-> None]
    /\ snapshot = NoSnapshot
    /\ published = <<>>
    /\ loopQ = <<>>
    /\ tokens = StoredTokens
    /\ last_sse_percentage = Whole(InitialLastPercentage)
    /\ last_sse_update_time = InitialLastUpdateTime
    /\ last_db_percentage = Whole(InitialLastPercentage)
    /\ last_db_update_time = InitialLastUpdateTime
    /\ clock = StartTime
    /\ callbacks = 0
    /\ last_d = NoCallback

NoResponse == [op |-> "none"]

\* No request was made yet; the row of the job exists.
InitToken ==
    /\ advances = 0
    /\ issued = 0
    /\ jobs = {download_id}
    /\ response = NoResponse

\* The token endpoints, with and without the row of the job.
InitEndpoints ==
    /\ InitStream
    /\ InitJob
    /\ advances = 0
    /\ issued = 0
    /\ jobs \in {{}, {download_id}}
    /\ response = NoResponse

\* The job at the moment download_video starts the engine.
InitEngineRunning ==
    /\ redis_up = TRUE
    /\ db_up = TRUE
    /\ faults = 0
    /\ history = <<>>
    /\ webhooks = <<"download_started">>
    /\ taskPc = "downloading"
    /\ engine = "running"
    /\ db = [status |-> "downloading", progress |-> NoProgress,
             started_at |-> TRUE, completed_at |-> FALSE,
             error_message |-> None]
    /\ snapshot = NoSnapshot
    /\ published = <<"downloading", "downloading">>
    /\ loopQ = <<>>
    /\ tokens = StoredTokens
    /\ last_sse_percentage = Whole(InitialLastPercentage)
    /\ last_sse_update_time = InitialLastUpdateTime
    /\ last_db_percentage = Whole(InitialLastPercentage)
    /\ last_db_update_time = InitialLastUpdateTime
    /\ clock = StartTime
    /\ callbacks = 0
    /\ last_d = NoCallback

Init == InitStream /\ InitJob /\ InitToken
InitHook == InitStream /\ InitEngineRunning /\ InitToken

NextStream == StreamStep

\* Only the filtered connection and one unfiltered connection are opened.
NextPair == StreamsStep(PairStreams)

NextJob ==
    \/ StartDownloading
    \/ \E found \in BOOLEAN : ExtractInfo(found)
    \/ ExtractInfoRaises
    \/ UpdateMetadata
    \/ LaunchDownload
    \/ \E d \in JobInputs, dt \in JobElapsed :
          callbacks < MaxCallbacks /\ progress_hook(d, dt)
    \/ \E file_exists \in BOOLEAN : EngineReturns(file_exists)
    \/ EngineRaises
    \/ FileSizeFails
    \/ \E i \in 1..Len(loopQ) : RunSseTask(i)
    \/ \E i \in 1..Len(loopQ) : RunDbTask(i)
    \/ MarkCompleted
    \/ MarkFailedNoFile
    \/ MarkFailedException
    \/ CreateHistory
    \/ DeleteProgress
    \/ RevokeTokens
    \/ Return

NextHook ==
    \E d \in HookInputs, dt \in Elapsed :
        callbacks < MaxCallbacks /\ progress_hook(d, dt)

\* The callbacks of a run with closely spaced readings.
NextTiers ==
    \E d \in TierInputs, dt \in TierElapsed : progress_hook(d, dt)

NextToken ==
    \/ \E r \in CreateRequests :
          create_sse_token(r.user_id, r.scope, r.ttl, r.delay)
    \/ \E token \in TokenNames, required_scope \in RequiredScopes :
          validate_sse_token(token, required_scope)
    \/ \E token \in TokenNames \cup {0} : get_current_sse_token(token)
    \/ \E r \in RevokeRequests : Revoke(r.user_id, r.scope_prefix)
    \/ \E dt \in ClockSteps : AdvanceTime(dt)

\* Tokens are requested while Redis may stop answering.
NextIssue ==
    \/ \E r \in CreateRequests :
          create_sse_token(r.user_id, r.scope, r.ttl, r.delay)
    \/ \E dt \in ClockSteps : AdvanceTime(dt)
    \/ Fault("redis")

NextScope ==
    \E token_scope \in Scopes, required_scope \in Scopes :
        CheckScope(token_scope, required_scope)

NextRoute ==
    \E token_scope \in StreamScopes, first \in ClientParams,
       second \in ClientParams :
        event_stream(token_scope, first, second)

\* The engine's callbacks, the loop running what they scheduled, and the
\* status endpoint polled at any moment.
NextStatus ==
    \/ \E d \in JobInputs, dt \in JobElapsed :
          callbacks < MaxCallbacks /\ progress_hook(d, dt)
    \/ \E i \in 1..Len(loopQ) : RunSseTask(i)
    \/ \E i \in 1..Len(loopQ) : RunDbTask(i)
    \/ get_download_status

\* The executor's job while Redis or the database may stop answering.
NextFault == NextJob \/ \E component \in {"redis", "db"} : Fault(component)

\* The executor's job with the cancel endpoint called at any moment.
NextCancel == NextJob \/ cancel_download

Next == NextStream \/ NextJob \/ NextToken \/ NextScope \/ NextRoute
            \/ NextCancel \/ NextStatus \/ NextTiers \/ NextIssue
            \/ NextFault \/ NextPair

Spec == Init /\ [][Next]_vars
SpecStream == Init /\ [][NextStream]_vars
SpecPair == Init /\ [][NextPair]_vars
SpecJob == Init /\ [][NextJob]_vars
SpecHook == InitHook /\ [][NextHook]_vars
SpecToken == InitEndpoints /\ [][NextToken]_vars
SpecScope == Init /\ [][NextScope]_vars
SpecRoute == Init /\ [][NextRoute]_vars
SpecCancel == Init /\ [][NextCancel]_vars
SpecStatus == InitHook /\ [][NextStatus]_vars
SpecTiers == InitHook /\ [][NextTiers]_vars
SpecIssue == InitEndpoints /\ [][NextIssue]_vars
SpecFault == Init /\ [][NextFault]_vars

(***************************************************************************)
(* Properties.                                                             *)
(***************************************************************************)

NumTasks(q, kind) == Cardinality({i \in 1..Len(q) : q[i].kind = kind})

\* C1: the durable status of a job only moves forward: once a terminal
\* status has been written no later write changes it, and when the run has
\* ended the status is terminal with completed_at set.
C1_StatusOnlyMovesForward ==
    /\ [][db.status \in Terminal => db'.status = db.status]_vars
    /\ [](taskPc = "returned" => db.status \in Terminal /\ db.completed_at)

\* C2: every admitted stream runs its decrement exactly once, when it ends
\* and on every exit path, so active_connections is the number of admitted
\* streams that have not ended yet.
C2_DecrementedExactlyOnce ==
    /\ \A s \in Streams :
          closes[s] = IF admitted[s] /\ pc[s] = "done" THEN 1 ELSE 0
    /\ active_connections =
          Cardinality({s \in Streams : admitted[s] /\ pc[s] # "done"})

C2_Witness ==
    /\ active_connections = 1
    /\ \E s \in Streams : admitted[s] /\ pc[s] = "done" /\ closes[s] = 1
    /\ \E s \in Streams : admitted[s] /\ pc[s] = "error_yield"

\* C3: a stream first iterated at the ceiling yields the MAX_CONNECTIONS
\* error as its only event and then ends; the attempt leaves
\* active_connections as it was and opens no subscription.
C3_RejectedAtCeiling ==
    [][\A s \in Streams :
          /\ (/\ pc[s] = "created"
              /\ pc'[s] \notin {"created", "done"}
              /\ active_connections >= max_connections)
                => /\ pc'[s] = "rejected_yield"
                   /\ out'[s] = <<ErrMaxConnections>>
                   /\ active_connections' = active_connections
          /\ pc[s] = "rejected_yield"
                => /\ pc'[s] \in {"rejected_yield", "done"}
                   /\ out'[s] = out[s]
                   /\ (pc'[s] = "done" =>
                          active_connections' = active_connections)
                   /\ ~subscribed'[s] /\ ~admitted'[s] /\ closes'[s] = 0]_vars

C3_Witness ==
    \E s \in Streams :
        /\ pc[s] = "done"
        /\ out[s] = <<ErrMaxConnections>>
        /\ active_connections = max_connections

\* C4: active_connections stays within 0..max_connections under every
\* interleaving of admissions and terminations.
C4_WithinCeiling ==
    /\ 0 <= active_connections
    /\ active_connections <= max_connections

\* One stream holds the last slot while another was turned away.
C4_Witness ==
    /\ active_connections = max_connections
    /\ \E s \in Streams : pc[s] = "rejected_yield"
    /\ \E s \in Streams : admitted[s] /\ pc[s] = "awaiting"

\* C5: when the run has ended, no token scoped to download:<the job's id>
\* is left in the store, whoever owns it.
C5_JobTokensRevoked ==
    taskPc = "returned" =>
        \A t \in tokens : t.scope # DownloadScope(download_id)

\* C6: on a callback a tier is written if and only if its percentage moved
\* by at least the tier's step since the tier's last write, or at least the
\* tier's interval passed since then, or the percentage is at least 99.9;
\* a callback that does not write a tier leaves its last-write state alone.
C6_TierWrittenIffThreshold ==
    [][(callbacks' = callbacks + 1 /\ last_d'.status = "downloading") =>
        LET p == snapshot'.progress.percentage
            near == p.n * 10 >= 999 * p.d
            push == \/ AbsDiffGe(p, last_sse_percentage, 1)
                    \/ clock' - last_sse_update_time >= 5
                    \/ near
            durable == \/ AbsDiffGe(p, last_db_percentage, 5)
                       \/ clock' - last_db_update_time >= 20
                       \/ near
            pushed == NumTasks(loopQ', "_publish_sse_progress")
                        = NumTasks(loopQ, "_publish_sse_progress") + 1
            stored == NumTasks(loopQ', "_update_download_status")
                        = NumTasks(loopQ, "_update_download_status") + 1
        IN  /\ pushed <=> push
            /\ stored <=> durable
            /\ Len(loopQ') = Len(loopQ) + (IF push THEN 1 ELSE 0)
                                        + (IF durable THEN 1 ELSE 0)
            /\ IF push
               THEN last_sse_percentage' = p /\ last_sse_update_time' = clock'
               ELSE UNCHANGED <<last_sse_percentage, last_sse_update_time>>
            /\ IF durable
               THEN last_db_percentage' = p /\ last_db_update_time' = clock'
               ELSE UNCHANGED <<last_db_percentage, last_db_update_time>>]_vars

\* The second callback wrote the push tier and not the durable tier.
C6_Witness ==
    /\ callbacks = 2
    /\ NumTasks(loopQ, "_publish_sse_progress") = 2
    /\ NumTasks(loopQ, "_update_download_status") = 1
    /\ last_sse_update_time - last_db_update_time \in 1..19

\* The percentage the rules of the specification give for a callback.
Reported(d) ==
    IF d.total_bytes = NoBytes \/ d.total_bytes <= 0
         \/ d.downloaded_bytes = NoBytes
    THEN Whole(0)
    ELSE IF d.downloaded_bytes >= d.total_bytes
              /\ d.downloaded_bytes < 1000000
         THEN Whole(5)
         ELSE IF d.downloaded_bytes > d.total_bytes
              THEN Whole(99)
              ELSE Frac(100 * (d.downloaded_bytes
                                 \div GCD(d.downloaded_bytes, d.total_bytes)),
                        d.total_bytes
                            \div GCD(d.downloaded_bytes, d.total_bytes))

C8_HookWritesNothingItself ==
    [][callbacks' # callbacks =>
          snapshot' = snapshot /\ published' = published /\ db' = db]_vars

\* C8 as amended: the hook hands the push and the durable write to the loop
\* and returns with them pending, so a callback changes neither the channel
\* nor the Download row; the cache write it makes itself, before it returns.
C8_OnlyThrottledTiersHandedOff ==
    [][callbacks' # callbacks =>
          /\ published' = published
          /\ db' = db
          /\ \E k \in 0..2 :
                /\ Len(loopQ') = Len(loopQ) + k
                /\ SubSeq(loopQ', 1, Len(loopQ)) = loopQ
          /\ last_d'.status = "downloading" =>
                /\ snapshot' # NoSnapshot
                /\ snapshot'.progress.downloaded_bytes = last_d'.downloaded_bytes
                /\ snapshot'.progress.total_bytes = last_d'.total_bytes]_vars

\* A second callback was made while the writes of the first were pending.
C8_Witness ==
    /\ callbacks = 2
    /\ Len(loopQ) = 4
    /\ snapshot # NoSnapshot
    /\ published = <<"downloading", "downloading">>

\* C9: the reported percentage is 5 when raw >= 100 with fewer than
\* 1,000,000 bytes downloaded, else 99 when raw > 100, else raw; 0 when the
\* total is unknown or not positive; so it lies in 0..100.
C9_ReportedPercentage ==
    last_d.status = "downloading" =>
        LET p == snapshot.progress.percentage
            dl == last_d.downloaded_bytes
            total == last_d.total_bytes
        IN  /\ (total = NoBytes \/ total <= 0) => p = Whole(0)
            /\ (total > 0 /\ dl # NoBytes) =>
                 \* raw >= 100 exactly when downloaded >= total
                 /\ (dl >= total /\ dl < 1000000) => p = Whole(5)
                 /\ (dl > total /\ dl >= 1000000) => p = Whole(99)
                 /\ (dl <= total /\ ~(dl = total /\ dl < 1000000))
                        => p.n * (total \div GCD(dl, total))
                              = 100 * (dl \div GCD(dl, total)) * p.d
                 /\ dl >= 0 => (p.n >= 0 /\ p.n <= 100 * p.d)

C9_Witness ==
    /\ last_d.status = "downloading"
    /\ last_d.downloaded_bytes = 1000000
    /\ last_d.total_bytes = 1000
    /\ snapshot.progress.percentage = Whole(99)

\* C10 as stated: the first callback of a job, at 0.5 per cent, updates the
\* cache and issues neither a push write nor a durable write.
C10_FirstCallbackWritesCacheOnly ==
    (/\ callbacks = 1
     /\ last_d = [status |-> "downloading", downloaded_bytes |-> 500,
                  total_bytes |-> 100000]) =>
        /\ snapshot.progress.percentage = Frac(1, 2)
        /\ NumTasks(loopQ, "_publish_sse_progress") = 0
        /\ NumTasks(loopQ, "_update_download_status") = 0

\* C10 as amended: the first callback of a job updates the cache and also
\* issues one push write and one durable write, whatever its percentage:
\* the last-write times start at 0.0, so both intervals have passed.
C10_FirstCallbackWritesAllTiers ==
    (callbacks = 1 /\ last_d.status = "downloading") =>
        /\ snapshot.progress.percentage = Reported(last_d)
        /\ NumTasks(loopQ, "_publish_sse_progress") = 1
        /\ NumTasks(loopQ, "_update_download_status") = 1
        /\ last_sse_update_time = clock
        /\ last_db_update_time = clock

C10_Witness ==
    /\ callbacks = 1
    /\ last_d = [status |-> "downloading", downloaded_bytes |-> 500,
                 total_bytes |-> 100000]
    /\ snapshot.progress.percentage = Frac(1, 2)
    /\ Len(loopQ) = 2

C12_EngineErrorFailsWithItsText ==
    (/\ engine \in {"extract_error", "download_error"}
     /\ taskPc \in {"history", "history_handler", "delete_progress",
                     "revoke", "return", "returned"}) =>
        /\ db.status = "failed"
        /\ db.error_message = EngineErrorText

\* The payload of event e has every key of the filters f, with its value.
PayloadMatches(e, f) ==
    \A kv \in f : \E k \in DOMAIN e.data : k = kv[1] /\ e.data[k] = kv[2]

\* The events of a stream's output that were forwarded from the subscription.
IsForwarded(y) == y.event \in {"download_progress", "queue_update"}

\* The events a stream has received and finished handling: all of them
\* except the one it holds while suspended at the heartbeat's yield.
Handled(s) ==
    IF event[s] = NoEvent THEN received[s]
    ELSE SubSeq(received[s], 1, Len(received[s]) - 1)

\* C13 as stated: a filtered stream forwards exactly the events matching
\* every filter key, and on receiving an event that does not match it
\* yields nothing at all.
C13_NonMatchingEmitsNothing ==
    [][\A s \in Streams :
          (/\ received'[s] # received[s]
           /\ filters[s] # {}
           /\ ~PayloadMatches(received'[s][Len(received'[s])], filters[s]))
              => out'[s] = out[s]]_vars

\* C13 as amended: a filtered stream forwards an event if and only if its
\* payload has every filter key with an equal value, in subscription order;
\* an event that does not match is never forwarded, and on receiving it the
\* stream yields nothing but the heartbeat that is due at that moment.
C13_ForwardedIffMatches ==
    /\ [](\A s \in Streams :
            LET Match(e) == filters[s] = {} \/ PayloadMatches(e, filters[s])
                matching == SelectSeq(Handled(s), Match)
                forwarded == SelectSeq(out[s], IsForwarded)
            IN  forwarded = [i \in 1..Len(matching) |-> Forwarded(matching[i])])
    /\ [][\A s \in Streams :
            /\ (/\ received'[s] # received[s]
                /\ filters[s] # {}
                /\ ~PayloadMatches(received'[s][Len(received'[s])],
                                   filters[s]))
                  => \/ out'[s] = out[s]
                     \/ /\ out'[s] = Append(out[s], EvHeartbeat)
                        /\ now - last_heartbeat[s] >= sse_heartbeat_interval
            /\ (/\ pc[s] = "heartbeat_yield"
                /\ pc'[s] = "awaiting")
                  => /\ out'[s] = out[s]
                     /\ ~PayloadMatches(event[s], filters[s])]_vars

\* The filtered stream forwarded a matching event, then received an event
\* that does not match, yielded the heartbeat that was due and dropped it.
C13_Witness ==
    \E s \in Streams :
        /\ filters[s] # {}
        /\ pc[s] = "awaiting"
        /\ Len(received[s]) = 2
        /\ PayloadMatches(received[s][1], filters[s])
        /\ ~PayloadMatches(received[s][2], filters[s])
        /\ Len(out[s]) = 3
        /\ out[s][2] = Forwarded(received[s][1])
        /\ out[s][3].event = "heartbeat"

\* C20: the first event an admitted stream yields is 'connected'; it is
\* yielded once, in the step that incremented the counter, and so before
\* every forwarded, heartbeat or error event of the stream; a stream that
\* was not admitted never yields it.
C20_ConnectedFirstAndOnce ==
    /\ [](\A s \in Streams :
            /\ admitted[s] =>
                  /\ Len(out[s]) >= 1
                  /\ out[s][1].event = "connected"
                  /\ \A i \in 2..Len(out[s]) : out[s][i].event # "connected"
            /\ ~admitted[s] =>
                  \A i \in 1..Len(out[s]) : out[s][i].event # "connected")
    /\ [][\A s \in Streams :
            (Len(out[s]) = 0 /\ Len(out'[s]) > 0
                /\ out'[s][1].event = "connected")
               => /\ active_connections' = active_connections + 1
                  /\ admitted'[s]
                  /\ Len(out'[s]) = 1]_vars

\* An admitted stream yielded connected, then a heartbeat and an event.
C20_Witness ==
    \E s \in Streams :
        /\ admitted[s]
        /\ Len(out[s]) = 3
        /\ out[s][1].event = "connected"
        /\ out[s][2].event = "heartbeat"
        /\ out[s][3].event = "download_progress"

\* The matching rule of the specification for a stored scope s and a
\* required scope r.
ScopeRule(s, r) ==
    \/ s = r
    \/ /\ Len(r) >= 2
       /\ r[Len(r) - 1] = ":"
       /\ r[Len(r)] = "*"
       /\ Len(s) >= Len(r) - 1
       /\ \A i \in 1..(Len(r) - 1) : s[i] = r[i]

\* The scope grammar of the specification: queue | system |
\* download:<non-empty id>.
ScopeGrammar(sc) ==
    \/ sc = QUEUE
    \/ sc = SYSTEM
    \/ /\ Len(sc) > Len(DOWNLOAD) + 1
       /\ \A i \in 1..Len(DOWNLOAD) : sc[i] = DOWNLOAD[i]
       /\ sc[Len(DOWNLOAD) + 1] = ":"

\* C14: validate_sse_token returns the token's metadata only for a token
\* that is stored, not expired and of a matching scope; an absent token
\* and an expired one are answered 401, the expired one being deleted, and
\* a stored, unexpired token of another scope is answered 403.
C14_ValidateOutcomes ==
    [][(response'.op = "validate" /\ response' # response) =>
        LET held == {k \in tokens : k.token = response'.token}
            r == response'.required_scope
        IN  /\ held = {} =>
                  /\ response'.status = 401
                  /\ response'.token_data = {}
                  /\ tokens' = tokens
            /\ \A k \in held :
                  /\ clock > k.expires_at =>
                        /\ response'.status = 401
                        /\ response'.token_data = {}
                        /\ tokens' = tokens \ {k}
                  /\ (clock <= k.expires_at /\ ~ScopeRule(k.scope, r)) =>
                        /\ response'.status = 403
                        /\ response'.token_data = {}
                        /\ tokens' = tokens
                  /\ (clock <= k.expires_at /\ ScopeRule(k.scope, r)) =>
                        /\ response'.status = 200
                        /\ response'.token_data = {k}
                        /\ tokens' = tokens]_vars

\* A token issued in the run, stored and not expired, was refused for its
\* scope.
C14_Witness ==
    /\ response.op = "validate"
    /\ response.status = 403
    /\ response.token = 1
    /\ response.required_scope = DownloadScope(<<"a">>)
    /\ \E k \in tokens : k.token = 1 /\ k.scope = QUEUE

\* C15: matches_scope and _scope_matches both answer true exactly when the
\* scopes are equal or the required scope ends with ':*' and the stored
\* scope starts with it less the '*'; they agree on every input.
C15_ScopeMatching ==
    response.op = "matches_scope" =>
        LET s == response.token_scope
            r == response.required_scope
        IN  /\ response.by_token = ScopeRule(s, r)
            /\ response.by_security = ScopeRule(s, r)
            /\ response.by_token = response.by_security
            /\ (s = QUEUE /\ r = DOWNLOAD \o <<":", "*">>)
                  => ~response.by_security
            /\ (s = DownloadScope(<<"a">>)
                    /\ r \in {QUEUE, DownloadScope(<<"b">>)})
                  => ~response.by_security

C15_Witness ==
    /\ response.op = "matches_scope"
    /\ response.token_scope = DownloadScope(<<"a">>)
    /\ response.required_scope = DOWNLOAD \o <<":", "*">>
    /\ response.by_token
    /\ response.by_security

\* C16: for a well-formed request, create_sse_token stores a token of scope
\* download:<id> only if the job <id> exists, and answers not-found and
\* stores nothing otherwise; for queue and system it issues the token
\* whichever jobs exist.
C16_DownloadTokenNeedsJob ==
    [][(response'.op = "create" /\ response' # response
           /\ response'.ttl >= 60 /\ response'.ttl <= 3600) =>
        LET sc == response'.scope
            id == SubSeq(sc, Len(DOWNLOAD) + 2, Len(sc))
            stored == \E k \in tokens' \ tokens :
                         /\ k.token = response'.token
                         /\ k.scope = sc
                         /\ k.user_id = response'.user_id
        IN  /\ (ScopeGrammar(sc) /\ sc \notin {QUEUE, SYSTEM}) =>
                  IF id \in jobs
                  THEN response'.status = 200 /\ stored
                  ELSE /\ response'.status = 404
                       /\ tokens' = tokens
                       /\ response'.token = 0
            /\ sc \in {QUEUE, SYSTEM} => response'.status = 200 /\ stored]_vars

\* A token was refused for a job that does not exist.
C16_Witness ==
    /\ response.op = "create"
    /\ response.scope = DownloadScope(<<"b">>)
    /\ response.status = 404
    /\ issued = 0

C18_MalformedRequestTouchesNothing ==
    [][(/\ response'.op = "create"
        /\ response' # response
        /\ \/ ~ScopeGrammar(response'.scope)
           \/ response'.ttl < 60
           \/ response'.ttl > 3600) =>
            /\ response'.status \in {400, 422}
            /\ response'.token = 0
            /\ tokens' = tokens
            /\ issued' = issued]_vars

\* A request for download: with an empty id was refused with the store
\* as it was.
C18_Witness ==
    /\ response.op = "create"
    /\ response.scope = DOWNLOAD \o <<":">>
    /\ response.status = 400
    /\ tokens = StoredTokens

\* C19: no validation, by validate_sse_token or by get_current_sse_token,
\* accepts a token at a time after its expiry (its issuance time plus its
\* ttl).
C19_NeverAcceptedAfterExpiry ==
    [][(/\ response'.op \in {"validate", "get_current"}
        /\ response' # response
        /\ response'.status = 200) =>
            \A k \in tokens :
                k.token = response'.token => clock <= k.expires_at]_vars

\* The number of INTERNAL_ERROR events a stream has yielded.
InternalErrors(s) ==
    Cardinality({i \in 1..Len(out[s]) : out[s][i] = ErrInternal})

\* C21: when the subscription of an admitted stream raises, the stream
\* yields one INTERNAL_ERROR event; that event is the only one of its kind
\* and the last event of the stream, which ends at the next resumption
\* with its slot given back.
C21_SubscriptionErrorEndsStream ==
    /\ [](\A s \in Streams :
            /\ InternalErrors(s) <= 1
            /\ pc[s] = "error_yield" =>
                  /\ admitted[s]
                  /\ out[s][Len(out[s])] = ErrInternal)
    /\ [][\A s \in Streams :
            /\ (pc[s] = "awaiting" /\ pc'[s] = "error_yield") =>
                  out'[s] = Append(out[s], ErrInternal)
            /\ InternalErrors(s) = 1 =>
                  /\ out'[s] = out[s]
                  /\ pc'[s] \in {"error_yield", "done"}
                  /\ (pc[s] = "error_yield" /\ pc'[s] = "done") =>
                        closes'[s] = 1]_vars

\* The subscription raised after the stream had forwarded an event.
C21_Witness ==
    \E s \in Streams :
        /\ pc[s] = "done"
        /\ closes[s] = 1
        /\ Len(out[s]) = 3
        /\ out[s][1] = EvConnected
        /\ out[s][2].event = "download_progress"
        /\ out[s][3] = ErrInternal

\* The number of heartbeats a stream has yielded.
Heartbeats(s) ==
    Cardinality({i \in 1..Len(out[s]) : out[s][i] = EvHeartbeat})

\* C22: a heartbeat is yielded only in the step in which an event arrives
\* from the subscription, and exactly when the heartbeat interval has
\* passed since the previous heartbeat or since the connection was
\* established; it is one heartbeat, yielded before the event is handled,
\* and it resets the heartbeat clock. A stream that received no event has
\* yielded no heartbeat.
C22_HeartbeatOnlyOnArrival ==
    /\ [](\A s \in Streams :
            /\ Heartbeats(s) <= Len(received[s])
            /\ pc[s] = "heartbeat_yield" =>
                  /\ out[s][Len(out[s])] = EvHeartbeat
                  /\ event[s] = received[s][Len(received[s])])
    /\ [][\A s \in Streams :
            LET arrived == Len(received'[s]) = Len(received[s]) + 1
                due == now - last_heartbeat[s] >= sse_heartbeat_interval
            IN  /\ Heartbeats(s)' # Heartbeats(s) => arrived /\ due
                /\ (arrived /\ due) =>
                      /\ out'[s] = Append(out[s], EvHeartbeat)
                      /\ last_heartbeat'[s] = now
                      /\ pc'[s] = "heartbeat_yield"
                /\ (arrived /\ ~due) =>
                      /\ Heartbeats(s)' = Heartbeats(s)
                      /\ last_heartbeat'[s] = last_heartbeat[s]]_vars

\* An unfiltered stream got a heartbeat, then the event that triggered it.
C22_Witness ==
    \E s \in Streams :
        /\ filters[s] = {}
        /\ Len(received[s]) = 1
        /\ Len(out[s]) = 3
        /\ out[s][2] = EvHeartbeat
        /\ out[s][3] = Forwarded(received[s][1])
        /\ last_heartbeat[s] = sse_heartbeat_interval

\* The events of one channel, and those of them about one download.
OnChannel(channel) == {e \in PublishedEvents : e.channel = channel}
AboutDownload(id) ==
    {e \in OnChannel("download:updates") : e.data.download_id = id}

\* C29 as stated: what a stream opened through /events/stream observes
\* depends only on the scope of its token: download:<id> gives the download
\* updates of <id>, queue the queue updates, system the system
\* notifications, and two requests that differ only in the channels and
\* download_id they supply observe the same events.
C29_ObservedDependsOnScopeOnly ==
    response.op = "event_stream" =>
        /\ response.observed_first = response.observed_second
        /\ response.observed_first =
              IF response.token_scope = QUEUE THEN OnChannel("queue:updates")
              ELSE IF response.token_scope = SYSTEM
              THEN OnChannel("system:notifications")
              ELSE AboutDownload(SubSeq(response.token_scope,
                                        Len(DOWNLOAD) + 2,
                                        Len(response.token_scope)))

\* C29 as amended: the channel a stream subscribes to depends only on the
\* scope of its token, and the channels parameter has no effect; a
\* download:<id> token observes exactly the download updates of <id>
\* whatever download_id the client supplies; with a queue or system token
\* a download_id supplied by the client still filters the stream, which
\* then observes the events of its channel that carry that download_id.
C29_ChannelDependsOnScopeOnly ==
    response.op = "event_stream" =>
        LET scope == response.token_scope
            channel == IF scope = QUEUE THEN "queue:updates"
                       ELSE IF scope = SYSTEM THEN "system:notifications"
                       ELSE "download:updates"
            Sees(params, observed) ==
                IF scope \in {QUEUE, SYSTEM}
                THEN observed =
                        {e \in OnChannel(channel) :
                            params.download_id # <<>> =>
                                /\ "download_id" \in DOMAIN e.data
                                /\ e.data.download_id = params.download_id}
                ELSE observed =
                        AboutDownload(SubSeq(scope, Len(DOWNLOAD) + 2,
                                             Len(scope)))
        IN  /\ response.arguments_first.channels = <<channel>>
            /\ response.arguments_second.channels = <<channel>>
            /\ Sees(response.first, response.observed_first)
            /\ Sees(response.second, response.observed_second)
            /\ response.first.download_id = response.second.download_id
                  => response.observed_first = response.observed_second

\* Two requests with a queue token, one of them with a download_id, did not
\* observe the same queue updates.
C29_Witness ==
    /\ response.op = "event_stream"
    /\ response.token_scope = QUEUE
    /\ response.first.download_id = <<>>
    /\ response.second.download_id = <<"a">>
    /\ response.first.channels = response.second.channels
    /\ response.observed_first = OnChannel("queue:updates")
    /\ response.observed_second # response.observed_first
    /\ response.observed_second # {}

\* C27: on download:updates no event with status downloading follows the
\* job's completed or failed event, however the loop interleaves the push
\* writes the hook scheduled with the terminal publish of the coroutine.
C27_NoProgressAfterTerminalEvent ==
    \A i \in 1..Len(published) : \A j \in 1..Len(published) :
        published[i] \in {"completed", "failed"} /\ i < j
            => published[j] # "downloading"

\* C28: once cancel_download has set the job to cancelled, the durable
\* status stays cancelled: no later write of the executor overwrites it.
C28_CancelledStaysCancelled ==
    [][db.status = "cancelled" => db'.status = "cancelled"]_vars

\* C30: for a downloading job whose snapshot exists, get_download_status
\* reports the percentage and the byte counts the most recent callback wrote
\* into the snapshot.
C30_StatusReportsSnapshot ==
    [][response'.op = "get_download_status" /\ response' # response
         /\ db_up /\ redis_up
         /\ db.status = "downloading" /\ snapshot # NoSnapshot
       => /\ response'.progress.percentage = snapshot.progress.percentage
          /\ response'.progress.downloaded_bytes
                = snapshot.progress.downloaded_bytes
          /\ response'.progress.total_bytes
                = snapshot.progress.total_bytes]_vars

\* C26: whenever progress_hook hands a durable-tier write to the loop for a
\* callback, it hands a push-tier write for the same callback too.
C26_DurableWriteHasItsPushWrite ==
    [][NumTasks(loopQ', "_update_download_status")
           > NumTasks(loopQ, "_update_download_status")
       => NumTasks(loopQ', "_publish_sse_progress")
           > NumTasks(loopQ, "_publish_sse_progress")]_vars

\* C24: a token is handed to the caller only if it has been stored: when
\* the store fails for a request that is otherwise well formed the answer
\* is 500 without a token and the store is left as it was, and every token
\* that is returned is in the store.
C24_TokenReturnedOnlyIfStored ==
    [][response'.op = "create" /\ response' # response
       => LET well_formed ==
                  /\ response'.ttl >= MIN_TTL
                  /\ response'.ttl <= MAX_TTL
                  /\ ScopeGrammar(response'.scope)
                  /\ \/ ~StartsWith(response'.scope, DOWNLOAD \o <<":">>)
                     \/ AfterFirstColon(response'.scope) \in jobs
          IN  /\ response'.token # 0
                  => /\ response'.status = 200
                     /\ \E k \in tokens' : k.token = response'.token
              /\ (~redis_up /\ well_formed)
                  => /\ response'.status = 500
                     /\ response'.token = 0
                     /\ tokens' = tokens]_vars

\* Redis was down when a well-formed request arrived, and it was refused.
C24_Witness ==
    /\ ~redis_up
    /\ response.op = "create"
    /\ response.status = 500
    /\ response.token = 0

\* C23: a failure of a Progress Store operation never changes the job's
\* outcome. Whatever the state of the store, a step of the coroutine enters
\* an exception path only when the database is down; with the database up
\* the terminal write is the one the engine's outcome calls for; and the
\* snapshot deletion and the token revocation move on to the next step and
\* leave the Download row alone.
C23_StoreFailureKeepsOutcome ==
    [][taskPc' # taskPc =>
        /\ taskPc' \in {"except_db", "raised"} => ~db_up
        /\ (db_up /\ taskPc = "downloading" /\ taskPc' = "history")
              => db'.status = IF engine = "file" THEN "completed"
                              ELSE "failed"
        /\ (db_up /\ taskPc \in {"except", "except_os", "except_db"})
              => db'.status = "failed" /\ taskPc' = "history_handler"
        /\ taskPc = "delete_progress" => taskPc' = "revoke" /\ db' = db
        /\ taskPc = "revoke" => taskPc' = "return" /\ db' = db]_vars

\* The store failed during the run, the snapshot could not be deleted, and
\* the run returned with the job completed.
C23_Witness ==
    /\ ~redis_up
    /\ db_up
    /\ taskPc = "returned"
    /\ db.status = "completed"
    /\ snapshot # NoSnapshot
    /\ history = <<"completed">>

\* C25: every run ends with the job in a terminal status and the cleanup
\* done: exactly one history record, the matching webhook triggered, the
\* snapshot deleted, the revocation attempted (the run returned through its
\* revoke step), whatever the engine and the collaborators did.
C25_EveryRunEndsCleanedUp ==
    taskPc \in {"returned", "raised"} =>
        /\ taskPc = "returned"
        /\ db.status \in Terminal
        /\ Len(history) = 1
        /\ webhooks[Len(webhooks)] =
              IF history[1] = "completed" THEN "download_completed"
              ELSE "download_failed"
        /\ snapshot = NoSnapshot

====
